---------------------------- MODULE Spec2Model ----------------------------
(***************************************************************************)
(* A model of SageADB (src/SageADBv12.py): the background LogcatWorker and *)
(* the foreground handlers of MainWindow that shell out to adb / scrcpy /  *)
(* bundletool, write the UI log and the session file debug.txt, and        *)
(* install split packages through a temporary extraction directory.        *)
(*                                                                         *)
(* Text is modelled as sequences of one-character strings, so that strip,  *)
(* lower, splitlines, splitext and shlex.split are computed, not assumed.  *)
(***************************************************************************)
EXTENDS Integers, Sequences, FiniteSets, TLC

VARIABLES
    \* ---- LogcatWorker and its thread (LogcatSpec) ----
    wpc,            \* position of the worker thread in QThread start / run()
    is_running,     \* LogcatWorker._is_running
    process,        \* LogcatWorker.process is not None
    proc,           \* the adb logcat OS process: "none" | "running" | "exited"
    pipe,           \* lines written by the process and not yet read
    termPending,    \* a terminate() request the process has not acted on
    sigs,           \* the signals sent to the process, in order
    quitReq,        \* QThread.quit() was called (exit flag of the thread)
    mpc,            \* position of the foreground thread inside stop_logcat
    logcat_thread,  \* MainWindow.logcat_thread is not None
    logcat_worker,  \* MainWindow.logcat_worker is not None
    start_btn,      \* start_logcat_btn.isEnabled()
    stop_btn,       \* stop_logcat_btn.isEnabled()
    closed,         \* closeEvent was accepted
    stoppedCount,   \* "Logcat stopped." notifications emitted by this run
    lineCount,      \* stream lines emitted by this run (saturating)
    errCount,       \* CRITICAL ERROR notifications emitted by this run
    exitPath,       \* how run() left its try block
    stopEarly,      \* where run() was when stop() cleared the flag
    afterStop,      \* stream lines emitted since stop() cleared the flag (saturating)
    \* ---- the log views and the session file (LogSpec, Spec) ----
    log_output,     \* paragraphs of the main log view (QTextEdit)
    logcat_output,  \* paragraphs of the logcat view (QTextEdit)
    debug_file,     \* content of debug.txt, as text
    writeFailed,    \* some open/write of debug.txt raised
    nOps,           \* handlers run so far
    \* ---- the extracted archive and what is computed from it ----
    tree,           \* files under the extraction root: [dir, name] records
    os_cwd,         \* os.getcwd(), the working directory of the application
    apk_files,      \* result of _collect_apk_files
    obb_pkg_dirs,   \* result of _find_obb_package_dirs
    phase,          \* "input" before the function was applied, "done" after
    \* ---- the foreground handlers (Spec) ----
    op,             \* the handler that ran last, with its inputs
    trace,          \* what that handler did, in order
    temp_dirs,      \* sageadb_* directories present in the temp folder
    apps_list       \* items of the application list: [text, red, hidden]

logcatVars == <<wpc, is_running, process, proc, pipe, termPending, sigs,
                quitReq, mpc, logcat_thread, logcat_worker, start_btn,
                stop_btn, closed, stoppedCount, lineCount, errCount,
                exitPath, stopEarly,
                   afterStop>>

logVars == <<log_output, logcat_output, debug_file, writeFailed, nOps>>

fsVars == <<tree, os_cwd, apk_files, obb_pkg_dirs, phase>>

uiVars == <<op, trace, temp_dirs, apps_list>>

vars == <<logcatVars, logVars, fsVars, uiVars>>

\* What the steps of the worker, of the process and of stop_logcat leave alone.
restOfLogcat == <<logVars, fsVars, uiVars>>

\* ------------------------------------------------------------------ bounds
MaxPipe == 2
MaxCount == 2

Min(a, b) == IF a < b THEN a ELSE b

(***************************************************************************)
(*                       LogcatWorker  (lines 16-79)                       *)
(***************************************************************************)

\* LogcatWorker.__init__ together with the fresh QThread of start_logcat.
WorkerInit ==
    /\ wpc = "none" /\ is_running = FALSE /\ process = FALSE
    /\ proc = "none" /\ pipe = 0 /\ termPending = FALSE /\ sigs = <<>>
    /\ quitReq = FALSE
    /\ stoppedCount = 0 /\ lineCount = 0 /\ errCount = 0
    /\ exitPath = "none" /\ stopEarly = "none" /\ afterStop = 0

\* MainWindow.__init__: no thread, no worker (lines 96-97), the Stop button
\* disabled (line 277), empty views, and debug.txt removed (lines 93-94).
InitWindow ==
    /\ WorkerInit
    /\ mpc = "idle" /\ logcat_thread = FALSE /\ logcat_worker = FALSE
    /\ start_btn = TRUE /\ stop_btn = FALSE /\ closed = FALSE
    /\ log_output = <<>> /\ logcat_output = <<>> /\ debug_file = <<>>
    /\ writeFailed = FALSE /\ nOps = 0
    /\ op = [name |-> "none"] /\ trace = <<>> /\ temp_dirs = 0
    /\ apps_list = <<>>

\* No archive has been extracted.
InitNoArchive ==
    /\ tree = {} /\ os_cwd = <<"/">> /\ apk_files = <<>> /\ obb_pkg_dirs = <<>>
    /\ phase = "input"

InitLogcat == InitWindow /\ InitNoArchive

\* Popen.terminate(): a request the process may honour later, or never.
\* Nothing is sent to a process that has already exited.
Terminate ==
    IF proc = "running"
    THEN /\ termPending' = TRUE
         /\ sigs' = Append(sigs, "term")
    ELSE UNCHANGED <<termPending, sigs>>

\* line 33: self._is_running = True
RunSetFlag ==
    /\ wpc = "run"
    /\ is_running' = TRUE
    /\ wpc' = "popen"
    /\ UNCHANGED restOfLogcat
    /\ UNCHANGED <<process, proc, pipe, termPending, sigs, quitReq, mpc,
                   logcat_thread, logcat_worker, start_btn, stop_btn, closed,
                   stoppedCount, lineCount, errCount, exitPath, stopEarly,
                   afterStop>>

\* lines 36-44, the call of subprocess.Popen: the process starts, or the
\* launch raises FileNotFoundError (line 50) or another exception (line 52);
\* either handler emits one CRITICAL ERROR line and falls into finally.
RunPopen ==
    /\ wpc = "popen"
    /\ \/ /\ proc' = "running"
          /\ wpc' = "store"
          /\ UNCHANGED <<errCount, exitPath>>
       \/ /\ \E why \in {"notfound", "error"} : exitPath' = why
          /\ errCount' = errCount + 1
          /\ wpc' = "finally"
          /\ UNCHANGED proc
    /\ UNCHANGED restOfLogcat
    /\ UNCHANGED <<is_running, process, pipe, termPending, sigs, quitReq,
                   mpc, logcat_thread, logcat_worker, start_btn, stop_btn,
                   closed, stoppedCount, lineCount, stopEarly,
                   afterStop>>

\* line 36, the assignment: self.process = <the Popen object>
RunStore ==
    /\ wpc = "store"
    /\ process' = TRUE
    /\ wpc' = "read"
    /\ UNCHANGED restOfLogcat
    /\ UNCHANGED <<is_running, proc, pipe, termPending, sigs, quitReq, mpc,
                   logcat_thread, logcat_worker, start_btn, stop_btn, closed,
                   stoppedCount, lineCount, errCount, exitPath, stopEarly,
                   afterStop>>

\* lines 45-47, one iteration up to the test: the read blocks until a line
\* is there; the flag is tested only after a line was read.
RunReadLine ==
    /\ wpc = "read"
    /\ pipe > 0
    /\ pipe' = pipe - 1
    /\ IF is_running
       THEN /\ wpc' = "emit_line"
            /\ UNCHANGED exitPath
       ELSE /\ wpc' = "finally"
            /\ exitPath' = "stop"
    /\ UNCHANGED restOfLogcat
    /\ UNCHANGED <<is_running, process, proc, termPending, sigs, quitReq,
                   mpc, logcat_thread, logcat_worker, start_btn, stop_btn,
                   closed, stoppedCount, lineCount, errCount, stopEarly,
                   afterStop>>

\* lines 48-49: self.newLine.emit(line.rstrip()), for the line that passed
\* the test; stop() may have cleared the flag since.
RunEmitLine ==
    /\ wpc = "emit_line"
    /\ lineCount' = Min(lineCount + 1, MaxCount)
    /\ afterStop' = IF stopEarly # "none" THEN Min(afterStop + 1, MaxCount)
                    ELSE afterStop
    /\ wpc' = "read"
    /\ UNCHANGED restOfLogcat
    /\ UNCHANGED <<is_running, process, proc, pipe, termPending, sigs,
                   quitReq, mpc, logcat_thread, logcat_worker, start_btn,
                   stop_btn, closed, stoppedCount, errCount, exitPath,
                   stopEarly>>

\* line 45: the stream ends once the process has exited and the pipe is
\* drained; the loop is left without looking at the flag.
RunEof ==
    /\ wpc = "read"
    /\ pipe = 0
    /\ proc = "exited"
    /\ wpc' = "finally"
    /\ exitPath' = "eof"
    /\ UNCHANGED restOfLogcat
    /\ UNCHANGED <<is_running, process, proc, pipe, termPending, sigs,
                   quitReq, mpc, logcat_thread, logcat_worker, start_btn,
                   stop_btn, closed, stoppedCount, lineCount, errCount,
                   stopEarly,
                   afterStop>>

\* lines 55-60: if self.process and self.process.poll() is None: terminate()
RunFinally ==
    /\ wpc = "finally"
    /\ IF process /\ proc = "running"
       THEN /\ Terminate
            /\ wpc' = "wait"
       ELSE /\ wpc' = "emit"
            /\ UNCHANGED <<termPending, sigs>>
    /\ UNCHANGED restOfLogcat
    /\ UNCHANGED <<is_running, process, proc, pipe, quitReq, mpc,
                   logcat_thread, logcat_worker, start_btn, stop_btn, closed,
                   stoppedCount, lineCount, errCount, exitPath, stopEarly,
                   afterStop>>

\* lines 61-67: self.process.wait(timeout=2) returns once the process has
\* exited; if it is still running when the timeout expires, kill() ends it.
RunWait ==
    /\ wpc = "wait"
    /\ IF proc = "exited"
       THEN UNCHANGED <<proc, sigs, termPending>>
       ELSE /\ proc' = "exited"
            /\ sigs' = Append(sigs, "kill")
            /\ termPending' = FALSE
    /\ wpc' = "emit"
    /\ UNCHANGED restOfLogcat
    /\ UNCHANGED <<is_running, process, pipe, quitReq, mpc, logcat_thread,
                   logcat_worker, start_btn, stop_btn, closed, stoppedCount,
                   lineCount, errCount, exitPath, stopEarly,
                   afterStop>>

\* A run() whose finally block forgets the terminal notification.
RunEmitStoppedSilent ==
    /\ wpc = "emit"
    /\ wpc' = "exec"
    /\ UNCHANGED restOfLogcat
    /\ UNCHANGED <<is_running, process, proc, pipe, termPending, sigs,
                   quitReq, mpc, logcat_thread, logcat_worker, start_btn,
                   stop_btn, closed, stoppedCount, lineCount, errCount,
                   exitPath, stopEarly,
                   afterStop>>

\* line 70: self.newLine.emit("Logcat stopped."); run() returns and the
\* thread goes on to QThread.exec().
RunEmitStopped ==
    /\ wpc = "emit"
    /\ stoppedCount' = stoppedCount + 1
    /\ wpc' = "exec"
    /\ UNCHANGED restOfLogcat
    /\ UNCHANGED <<is_running, process, proc, pipe, termPending, sigs,
                   quitReq, mpc, logcat_thread, logcat_worker, start_btn,
                   stop_btn, closed, lineCount, errCount, exitPath,
                   stopEarly,
                   afterStop>>

\* QThread.exec() of the worker thread: it returns, and the thread finishes,
\* once quit() has been called (before or after exec() was entered).
ThreadExec ==
    /\ wpc = "exec"
    /\ quitReq
    /\ wpc' = "finished"
    /\ UNCHANGED restOfLogcat
    /\ UNCHANGED <<is_running, process, proc, pipe, termPending, sigs,
                   quitReq, mpc, logcat_thread, logcat_worker, start_btn,
                   stop_btn, closed, stoppedCount, lineCount, errCount,
                   exitPath, stopEarly,
                   afterStop>>

(***************************************************************************)
(* The adb logcat process, as the worker's Popen object sees it.           *)
(***************************************************************************)

\* The process writes one more line to its stdout pipe.
ProcEmit ==
    /\ proc = "running"
    /\ pipe < MaxPipe
    /\ pipe' = pipe + 1
    /\ UNCHANGED restOfLogcat
    /\ UNCHANGED <<wpc, is_running, process, proc, termPending, sigs,
                   quitReq, mpc, logcat_thread, logcat_worker, start_btn,
                   stop_btn, closed, stoppedCount, lineCount, errCount,
                   exitPath, stopEarly,
                   afterStop>>

\* The process exits on its own (device gone, adb server stopped).
ProcExit ==
    /\ proc = "running"
    /\ ~termPending
    /\ proc' = "exited"
    /\ UNCHANGED restOfLogcat
    /\ UNCHANGED <<wpc, is_running, process, pipe, termPending, sigs,
                   quitReq, mpc, logcat_thread, logcat_worker, start_btn,
                   stop_btn, closed, stoppedCount, lineCount, errCount,
                   exitPath, stopEarly,
                   afterStop>>

\* The process honours a pending terminate() request.
ProcTerminated ==
    /\ proc = "running"
    /\ termPending
    /\ proc' = "exited"
    /\ termPending' = FALSE
    /\ UNCHANGED restOfLogcat
    /\ UNCHANGED <<wpc, is_running, process, pipe, sigs, quitReq, mpc,
                   logcat_thread, logcat_worker, start_btn, stop_btn, closed,
                   stoppedCount, lineCount, errCount, exitPath, stopEarly,
                   afterStop>>

(***************************************************************************)
(*             MainWindow: start_logcat, stop_logcat, closeEvent           *)
(***************************************************************************)

\* lines 626-636, on a click of the enabled Start button: the logcat view
\* is cleared, a new thread and a new worker are made, and QThread.start()
\* makes started invoke worker.run on that thread.
start_logcat ==
    /\ mpc = "idle" /\ ~closed
    /\ start_btn
    /\ logcat_thread' = TRUE
    /\ logcat_worker' = TRUE
    /\ wpc' = "run"
    /\ is_running' = FALSE /\ process' = FALSE
    /\ proc' = "none" /\ pipe' = 0 /\ termPending' = FALSE /\ sigs' = <<>>
    /\ quitReq' = FALSE
    /\ stoppedCount' = 0 /\ lineCount' = 0 /\ errCount' = 0
    /\ exitPath' = "none" /\ stopEarly' = "none" /\ afterStop' = 0
    /\ start_btn' = FALSE
    /\ stop_btn' = TRUE
    /\ logcat_output' = <<>>
    /\ UNCHANGED <<log_output, debug_file, writeFailed, nOps, fsVars, uiVars>>
    /\ UNCHANGED <<mpc, closed>>

\* line 276: a click of the enabled Stop button enters stop_logcat.
StopClicked ==
    /\ mpc = "idle" /\ ~closed
    /\ stop_btn
    /\ mpc' = "stop"
    /\ UNCHANGED restOfLogcat
    /\ UNCHANGED <<wpc, is_running, process, proc, pipe, termPending, sigs,
                   quitReq, logcat_thread, logcat_worker, start_btn, stop_btn,
                   closed, stoppedCount, lineCount, errCount, exitPath,
                   stopEarly,
                   afterStop>>

\* lines 719-722: closeEvent calls stop_logcat, then accepts the event.
closeEvent ==
    /\ mpc = "idle" /\ ~closed
    /\ closed' = TRUE
    /\ mpc' = "stop"
    /\ UNCHANGED restOfLogcat
    /\ UNCHANGED <<wpc, is_running, process, proc, pipe, termPending, sigs,
                   quitReq, logcat_thread, logcat_worker, start_btn, stop_btn,
                   stoppedCount, lineCount, errCount, exitPath, stopEarly,
                   afterStop>>

\* lines 650-651 and 74: if self.logcat_worker: stop() clears the flag.
StopFlag ==
    /\ mpc = "stop"
    /\ IF logcat_worker
       THEN /\ is_running' = FALSE
            /\ stopEarly' = IF wpc = "run" THEN "before_flag"
                            ELSE IF wpc \in {"popen", "store"} THEN "before_process"
                            ELSE "later"
            /\ afterStop' = 0
            /\ mpc' = "stop_process"
       ELSE /\ mpc' = "quit"
            /\ UNCHANGED <<is_running, stopEarly,
                   afterStop>>
    /\ UNCHANGED restOfLogcat
    /\ UNCHANGED <<wpc, process, proc, pipe, termPending, sigs, quitReq,
                   logcat_thread, logcat_worker, start_btn, stop_btn, closed,
                   stoppedCount, lineCount, errCount, exitPath>>

\* lines 75-79: if self.process: self.process.terminate()
StopTerminate ==
    /\ mpc = "stop_process"
    /\ IF process
       THEN Terminate
       ELSE UNCHANGED <<termPending, sigs>>
    /\ mpc' = "quit"
    /\ UNCHANGED restOfLogcat
    /\ UNCHANGED <<wpc, is_running, process, proc, pipe, quitReq,
                   logcat_thread, logcat_worker, start_btn, stop_btn, closed,
                   stoppedCount, lineCount, errCount, exitPath, stopEarly,
                   afterStop>>

\* lines 652-653: if self.logcat_thread: self.logcat_thread.quit()
StopQuit ==
    /\ mpc = "quit"
    /\ IF logcat_thread
       THEN /\ quitReq' = TRUE
            /\ mpc' = "wait"
       ELSE /\ mpc' = "clear"
            /\ UNCHANGED quitReq
    /\ UNCHANGED restOfLogcat
    /\ UNCHANGED <<wpc, is_running, process, proc, pipe, termPending, sigs,
                   logcat_thread, logcat_worker, start_btn, stop_btn, closed,
                   stoppedCount, lineCount, errCount, exitPath, stopEarly,
                   afterStop>>

\* A stop_logcat that does not wait for the thread to finish.
StopWaitNoWait ==
    /\ mpc = "wait"
    /\ mpc' = "clear"
    /\ UNCHANGED restOfLogcat
    /\ UNCHANGED <<wpc, is_running, process, proc, pipe, termPending, sigs,
                   quitReq, logcat_thread, logcat_worker, start_btn, stop_btn,
                   closed, stoppedCount, lineCount, errCount, exitPath,
                   stopEarly,
                   afterStop>>

\* line 654: self.logcat_thread.wait() blocks until the thread has finished.
StopWait ==
    /\ mpc = "wait"
    /\ wpc = "finished"
    /\ mpc' = "clear"
    /\ UNCHANGED restOfLogcat
    /\ UNCHANGED <<wpc, is_running, process, proc, pipe, termPending, sigs,
                   quitReq, logcat_thread, logcat_worker, start_btn, stop_btn,
                   closed, stoppedCount, lineCount, errCount, exitPath,
                   stopEarly,
                   afterStop>>

\* lines 655-658: the references are dropped and the buttons flipped.
StopClear ==
    /\ mpc = "clear"
    /\ logcat_thread' = FALSE
    /\ logcat_worker' = FALSE
    /\ start_btn' = TRUE
    /\ stop_btn' = FALSE
    /\ mpc' = "idle"
    /\ UNCHANGED restOfLogcat
    /\ UNCHANGED <<wpc, is_running, process, proc, pipe, termPending, sigs,
                   quitReq, closed, stoppedCount, lineCount, errCount,
                   exitPath, stopEarly,
                   afterStop>>

WorkerStep ==
    \/ RunSetFlag \/ RunPopen \/ RunStore \/ RunReadLine \/ RunEmitLine
    \/ RunEof
    \/ RunFinally \/ RunWait \/ RunEmitStopped \/ ThreadExec

ProcStep == ProcEmit \/ ProcExit \/ ProcTerminated

MainStep ==
    \/ start_logcat \/ StopClicked \/ closeEvent
    \/ StopFlag \/ StopTerminate \/ StopQuit \/ StopWait \/ StopClear

NextLogcat == WorkerStep \/ ProcStep \/ MainStep

LogcatSpec == InitLogcat /\ [][NextLogcat]_vars


\* The scheduler runs every thread that can take a step, and the adb logcat
\* process keeps writing lines and honours terminate().  The two process
\* conditions only remove behaviours: a run that violates a property under
\* them is also a run of the program with a less obliging process.
LogcatFairSpec ==
    /\ LogcatSpec
    /\ WF_vars(WorkerStep)
    /\ WF_vars(StopFlag \/ StopTerminate \/ StopQuit \/ StopWait \/ StopClear)
    /\ WF_vars(ProcEmit)
    /\ WF_vars(ProcTerminated)


(***************************************************************************)
(*        Text: str.strip, str.split, str.splitlines (Python 3)            *)
(***************************************************************************)

\* The whitespace of the modelled alphabet: space and newline.
IsSpace(c) == c \in {" ", "\n"}

RECURSIVE LStrip(_)
LStrip(s) == IF s # <<>> /\ IsSpace(Head(s)) THEN LStrip(Tail(s)) ELSE s

RECURSIVE RStrip(_)
RStrip(s) ==
    IF s # <<>> /\ IsSpace(s[Len(s)]) THEN RStrip(SubSeq(s, 1, Len(s) - 1)) ELSE s

\* str.strip()
Strip(s) == RStrip(LStrip(s))

\* Index of the first occurrence of symbol c in s, 0 if there is none.
IndexOf(s, c) ==
    IF \E i \in 1..Len(s) : s[i] = c
    THEN CHOOSE i \in 1..Len(s) : s[i] = c /\ \A j \in 1..(i - 1) : s[j] # c
    ELSE 0

\* str.split(sep) for a one-symbol separator: always at least one piece.
RECURSIVE Split(_, _)
Split(s, sep) ==
    LET i == IndexOf(s, sep)
    IN  IF i = 0 THEN <<s>>
        ELSE <<SubSeq(s, 1, i - 1)>> \o Split(SubSeq(s, i + 1, Len(s)), sep)

\* str.splitlines() of text whose only line break is "\n": no piece for an
\* empty text, none after a final line break.
SplitLines(s) ==
    IF s = <<>> THEN <<>>
    ELSE LET p == Split(s, "\n")
         IN  IF p[Len(p)] = <<>> THEN SubSeq(p, 1, Len(p) - 1) ELSE p

\* " ".join(args), each argument a text.
RECURSIVE Join(_)
Join(args) ==
    IF args = <<>> THEN <<>>
    ELSE IF Len(args) = 1 THEN args[1]
    ELSE args[1] \o <<" ">> \o Join(Tail(args))


(***************************************************************************)
(*   Text: str.lower, str.endswith, "in", comparison of str (code points)  *)
(***************************************************************************)

\* str.lower() on one character of the modelled alphabet.
LowerChar(c) ==
    CASE c = "A" -> "a" [] c = "B" -> "b" [] c = "C" -> "c" [] c = "D" -> "d"
      [] c = "E" -> "e"
      [] c = "K" -> "k" [] c = "M" -> "m" [] c = "O" -> "o" [] c = "P" -> "p"
      [] c = "S" -> "s" [] c = "X" -> "x" [] c = "Z" -> "z"
      [] OTHER -> c

\* A lower() that leaves the text as it is.
LowerIdentity(s) == s

\* str.lower()
Lower(s) == [i \in 1..Len(s) |-> LowerChar(s[i])]

\* s.endswith(suffix)
EndsWith(s, suffix) ==
    /\ Len(s) >= Len(suffix)
    /\ SubSeq(s, Len(s) - Len(suffix) + 1, Len(s)) = suffix

\* sub in s
Contains(s, sub) ==
    \E i \in 1..(Len(s) - Len(sub) + 1) : SubSeq(s, i, i + Len(sub) - 1) = sub

\* ord(c) for the characters of the modelled alphabet.
Ord(c) ==
    CASE c = " " -> 32 [] c = "\"" -> 34 [] c = "-" -> 45 [] c = "." -> 46
      [] c = "/" -> 47 [] c = "1" -> 49 [] c = "2" -> 50 [] c = ":" -> 58
      [] c = "A" -> 65 [] c = "B" -> 66 [] c = "C" -> 67 [] c = "D" -> 68
      [] c = "E" -> 69
      [] c = "K" -> 75 [] c = "M" -> 77 [] c = "O" -> 79 [] c = "P" -> 80
      [] c = "S" -> 83 [] c = "X" -> 88 [] c = "Z" -> 90 [] c = "_" -> 95
      [] c = "a" -> 97 [] c = "b" -> 98 [] c = "c" -> 99 [] c = "d" -> 100
      [] c = "e" -> 101 [] c = "f" -> 102 [] c = "g" -> 103 [] c = "i" -> 105
      [] c = "k" -> 107 [] c = "l" -> 108 [] c = "m" -> 109 [] c = "n" -> 110
      [] c = "o" -> 111 [] c = "p" -> 112 [] c = "r" -> 114 [] c = "s" -> 115
      [] c = "t" -> 116 [] c = "x" -> 120 [] c = "z" -> 122
      [] OTHER -> 0

\* a < b for two str: the first differing code point decides, a proper
\* prefix is smaller.
RECURSIVE StrLess(_, _)
StrLess(a, b) ==
    IF b = <<>> THEN FALSE
    ELSE IF a = <<>> THEN TRUE
    ELSE IF Head(a) = Head(b) THEN StrLess(Tail(a), Tail(b))
    ELSE Ord(Head(a)) < Ord(Head(b))

(***************************************************************************)
(*              The extracted archive and os.walk (lines 395, 414)         *)
(***************************************************************************)

\* The directories of a tree: the root <<>>, and every prefix of the
\* directory of a file.
DirsOf(t) ==
    {<<>>} \cup UNION {{SubSeq(f.dir, 1, n) : n \in 0..Len(f.dir)} : f \in t}

\* d is e or lies below e.
IsUnder(d, e) == Len(d) >= Len(e) /\ SubSeq(d, 1, Len(e)) = e

\* All orderings of a finite set, as sequences.
RECURSIVE Perms(_)
Perms(S) ==
    IF S = {} THEN {<<>>}
    ELSE UNION {{<<x>> \o q : q \in Perms(S \ {x})} : x \in S}

\* The directories directly below d.
ChildDirs(dirset, d) == {e \in dirset : Len(e) = Len(d) + 1 /\ IsUnder(e, d)}

\* os.walk(root_dir), top-down: a directory is visited before what lies
\* below it, and a whole subtree before the next sibling; the order of the
\* siblings is that of os.scandir, which is arbitrary.
RECURSIVE WalksFrom(_, _)
RECURSIVE WalksOfAll(_, _)
WalksOfAll(dirset, ks) ==
    IF ks = <<>> THEN {<<>>}
    ELSE {a \o b : a \in WalksFrom(dirset, Head(ks)), b \in WalksOfAll(dirset, Tail(ks))}

WalksFrom(dirset, d) ==
    UNION {{<<d>> \o w : w \in WalksOfAll(dirset, ks)} : ks \in Perms(ChildDirs(dirset, d))}

WalkOrders(dirset) == WalksFrom(dirset, <<>>)

\* The file names os.walk reports for directory d, in scandir order.
FileOrders(t, d) == Perms({f \in t : f.dir = d})

(***************************************************************************)
(*     MainWindow._log and update_logcat_and_debug_file (327-346, 638-647) *)
(***************************************************************************)

\* datetime.now().strftime('%H:%M:%S'), bracketed: one symbol of the text.
Timestamps == {"[12:00:00]", "[12:00:01]"}

\* line 332: f"[{timestamp}] $ {command}"
CmdEntry(ts, command) == <<ts, " ", "$", " ">> \o command

\* lines 338 and 340: f"[{timestamp}] > {text}"
OutEntry(ts, text) == <<ts, " ", ">", " ">> \o text

\* line 645: f"[{timestamp}] [LOGCAT] {line}"
LogcatEntry(ts, line) == <<ts, " ", "[LOGCAT]", " ">> \o line

\* lines 339-340: one stamped line of the file per line of the output.
RECURSIVE StampLines(_, _)
StampLines(ts, lines) ==
    IF lines = <<>> THEN <<>>
    ELSE OutEntry(ts, Head(lines)) \o <<"\n">> \o StampLines(ts, Tail(lines))

FileOutLines(ts, cleaned) == StampLines(ts, SplitLines(cleaned))

\* QTextEdit.append(text): one paragraph per "\n"-separated piece.
ViewAppend(view, text) == view \o Split(text, "\n")

\* _log as it was before the test of line 337 was added (src/SageADBv8.py,
\* lines 339-342): a whitespace-only output still appends a "> " paragraph.
LogViewNoBlankCheck(view, ts, command, output) ==
    LET v1 == IF command # <<>> THEN ViewAppend(view, CmdEntry(ts, command))
              ELSE view
    IN  IF output # <<>>
        THEN ViewAppend(v1, OutEntry(ts, Strip(output)))
        ELSE v1

\* lines 331-333 and 335-338: what _log appends to the main log view.
LogView(view, ts, command, output) ==
    LET v1 == IF command # <<>> THEN ViewAppend(view, CmdEntry(ts, command))
              ELSE view
        cleaned_output == Strip(output)
    IN  IF output # <<>> /\ cleaned_output # <<>>
        THEN ViewAppend(v1, OutEntry(ts, cleaned_output))
        ELSE v1

\* lines 330-340: full_log_entry, the text _log writes to debug.txt.
FullLogEntry(ts, command, output) ==
    LET c == IF command # <<>> THEN CmdEntry(ts, command) \o <<"\n">>
             ELSE <<>>
        cleaned_output == Strip(output)
    IN  IF output # <<>> /\ cleaned_output # <<>>
        THEN c \o FileOutLines(ts, cleaned_output)
        ELSE c

\* The state _log works on, as one value, so that a handler can call it
\* several times in a row.
LogState == [view |-> log_output, file |-> debug_file, failed |-> writeFailed]

\* _log with debug.txt opened in mode 'w' instead of 'a'.
LogCallTruncate(st, ts, command, output, ok) ==
    [view |-> LogView(st.view, ts, command, output),
     file |-> IF ok THEN FullLogEntry(ts, command, output) ELSE st.file,
     failed |-> st.failed \/ ~ok]

\* _log(command, output): the view first, then the append to debug.txt,
\* whose failure (lines 345-346) is only printed.
LogCall(st, ts, command, output, ok) ==
    [view |-> LogView(st.view, ts, command, output),
     file |-> IF ok THEN st.file \o FullLogEntry(ts, command, output)
              ELSE st.file,
     failed |-> st.failed \/ ~ok]

\* The inputs _log and the logcat slot are tried on.
SampleCommands == {<<>>, <<"c">>}
SampleOutputs ==
    { <<>>, <<"a">>, <<"a", "\n", "b">>, <<" ", "\n">>,
      <<" ", "a", "\n", "\n", " ", "b", "\n">>, <<"\n", "b", " ">> }
SampleLogcatLines == {<<>>, <<"a">>, <<"a", " ", "b">>}

MaxLog == 2

\* A call of _log by some handler.
log_call ==
    /\ nOps < MaxLog
    /\ \E ts \in Timestamps, command \in SampleCommands,
          output \in SampleOutputs, ok \in BOOLEAN :
          LET st == LogCall(LogState, ts, command, output, ok)
          IN  /\ log_output' = st.view
              /\ debug_file' = st.file
              /\ writeFailed' = st.failed
    /\ nOps' = nOps + 1
    /\ UNCHANGED logcat_output
    /\ UNCHANGED <<logcatVars, fsVars, uiVars>>

\* update_logcat_and_debug_file(line), the slot of LogcatWorker.newLine;
\* the worker emits line.rstrip() (line 49).
update_logcat_and_debug_file ==
    /\ nOps < MaxLog
    /\ \E ts \in Timestamps, line \in SampleLogcatLines, ok \in BOOLEAN :
          /\ logcat_output' = ViewAppend(logcat_output, RStrip(line))
          /\ debug_file' = IF ok
                           THEN debug_file \o LogcatEntry(ts, RStrip(line)) \o <<"\n">>
                           ELSE debug_file
          /\ writeFailed' = (writeFailed \/ ~ok)
    /\ nOps' = nOps + 1
    /\ UNCHANGED log_output
    /\ UNCHANGED <<logcatVars, fsVars, uiVars>>

NextLog == log_call \/ update_logcat_and_debug_file \/ start_logcat

LogSpec == InitLogcat /\ [][NextLog]_vars

\* The lines of debug.txt.
FileLines == SplitLines(debug_file)

\* a is a subsequence of b: its elements occur in b in the same order, each
\* at a place of its own.
RECURSIVE IsSubseq(_, _)
IsSubseq(a, b) ==
    IF a = <<>> THEN TRUE
    ELSE IF b = <<>> THEN FALSE
    ELSE IF Head(a) = Head(b) THEN IsSubseq(Tail(a), Tail(b))
    ELSE IsSubseq(a, Tail(b))


(***************************************************************************)
(*                  MainWindow._collect_apk_files (392-403)                *)
(***************************************************************************)

Ext_apk == <<".", "a", "p", "k">>
Name_base == <<"b", "a", "s", "e">>
Name_base_apk == <<"b", "a", "s", "e", ".", "a", "p", "k">>
Name_split1_apk == <<"s", "p", "l", "i", "t", "1", ".", "a", "p", "k">>
Name_abase_apk == <<"a", "b", "a", "s", "e", ".", "a", "p", "k">>
Name_Zed_APK == <<"Z", "e", "d", ".", "A", "P", "K">>
Name_notes_txt == <<"n", "o", "t", "e", "s", ".", "t", "x", "t">>
Dir_lib == <<"l", "i", "b">>

\* lines 395-398: the .apk files in the order os.walk reports them; order
\* is a walk order of the directories, fperm fixes the scandir order of the
\* files inside each directory.
RECURSIVE FilterApk(_)
FilterApk(fs) ==
    IF fs = <<>> THEN <<>>
    ELSE IF EndsWith(Lower(Head(fs).name), Ext_apk)
         THEN <<Head(fs)>> \o FilterApk(Tail(fs))
         ELSE FilterApk(Tail(fs))

RECURSIVE FilesInDir(_, _)
FilesInDir(fperm, d) ==
    IF fperm = <<>> THEN <<>>
    ELSE IF Head(fperm).dir = d
         THEN <<Head(fperm)>> \o FilesInDir(Tail(fperm), d)
         ELSE FilesInDir(Tail(fperm), d)

RECURSIVE WalkFiles(_, _)
WalkFiles(order, fperm) ==
    IF order = <<>> THEN <<>>
    ELSE FilesInDir(fperm, Head(order)) \o WalkFiles(Tail(order), fperm)

\* A sort_key that looks for the exact name base.apk only.
SortKeyFlagExact(f) ==
    IF Lower(f.name) = Name_base_apk THEN 0 ELSE 1

\* lines 399-401, first component of sort_key:
\* 0 if "base" in name or name == "base.apk" else 1
SortKeyFlag(f) ==
    IF Contains(Lower(f.name), Name_base) \/ Lower(f.name) = Name_base_apk
    THEN 0 ELSE 1

\* sort_key(a) < sort_key(b), as Python compares the tuples.
KeyLess(a, b) ==
    \/ SortKeyFlag(a) < SortKeyFlag(b)
    \/ /\ SortKeyFlag(a) = SortKeyFlag(b)
       /\ StrLess(Lower(a.name), Lower(b.name))

\* list.sort(key=sort_key) is stable: an element goes behind the elements
\* that were before it and are not greater.
RECURSIVE InsertSorted(_, _)
InsertSorted(sorted, x) ==
    IF sorted = <<>> THEN <<x>>
    ELSE IF KeyLess(x, Head(sorted)) THEN <<x>> \o sorted
    ELSE <<Head(sorted)>> \o InsertSorted(Tail(sorted), x)

RECURSIVE SortApks(_)
SortApks(l) ==
    IF l = <<>> THEN <<>>
    ELSE InsertSorted(SortApks(SubSeq(l, 1, Len(l) - 1)), l[Len(l)])

\* _collect_apk_files(root_dir)
CollectApkFiles(order, fperm) == SortApks(FilterApk(WalkFiles(order, fperm)))

\* The files an archive may hold, for _collect_apk_files.
CollectCandidates ==
    { [dir |-> <<>>, name |-> Name_base_apk],
      [dir |-> <<>>, name |-> Name_split1_apk],
      [dir |-> <<>>, name |-> Name_abase_apk],
      [dir |-> <<>>, name |-> Name_notes_txt],
      [dir |-> <<Dir_lib>>, name |-> Name_Zed_APK],
      [dir |-> <<Dir_lib>>, name |-> Name_base_apk] }

InitCollect ==
    /\ InitWindow
    /\ tree \in SUBSET CollectCandidates
    /\ os_cwd = <<"/">> /\ apk_files = <<>> /\ obb_pkg_dirs = <<>>
    /\ phase = "input"

\* One call of _collect_apk_files on the extracted tree.
collect_apk_files ==
    /\ phase = "input"
    /\ \E order \in WalkOrders(DirsOf(tree)), fperm \in Perms(tree) :
           apk_files' = CollectApkFiles(order, fperm)
    /\ phase' = "done"
    /\ UNCHANGED <<tree, os_cwd, obb_pkg_dirs>>
    /\ UNCHANGED <<logcatVars, logVars, uiVars>>

NextCollect == collect_apk_files

CollectSpec == InitCollect /\ [][NextCollect]_vars


(***************************************************************************)
(*       os.path (posixpath) on paths written out as text                  *)
(***************************************************************************)

\* Index of the last "/" of p, 0 if there is none: p.rfind("/") + 1.
LastSlash(p) ==
    IF \E i \in 1..Len(p) : p[i] = "/"
    THEN CHOOSE i \in 1..Len(p) : p[i] = "/" /\ \A j \in (i + 1)..Len(p) : p[j] # "/"
    ELSE 0

RECURSIVE RStripSlash(_)
RStripSlash(p) ==
    IF p # <<>> /\ p[Len(p)] = "/" THEN RStripSlash(SubSeq(p, 1, Len(p) - 1)) ELSE p

\* os.path.split(p): (head, tail); the head loses its trailing slashes
\* unless it consists of slashes only.
OsPathSplit(p) ==
    LET i == LastSlash(p)
        head == SubSeq(p, 1, i)
        tail == SubSeq(p, i + 1, Len(p))
    IN  [head |-> IF head # <<>> /\ (\E k \in 1..Len(head) : head[k] # "/")
                  THEN RStripSlash(head) ELSE head,
         tail |-> tail]

\* os.path.basename(p)
Basename(p) == SubSeq(p, LastSlash(p) + 1, Len(p))

\* os.path.join(a, b)
OsPathJoin(a, b) ==
    IF b # <<>> /\ b[1] = "/" THEN b
    ELSE IF a = <<>> \/ a[Len(a)] = "/" THEN a \o b
    ELSE a \o <<"/">> \o b

\* os.path.join(*segs)
RECURSIVE OsPathJoinAll(_)
OsPathJoinAll(segs) ==
    IF Len(segs) = 1 THEN segs[1]
    ELSE OsPathJoin(OsPathJoinAll(SubSeq(segs, 1, Len(segs) - 1)), segs[Len(segs)])

\* lines 421-431: the components of r from the root to the leaf, lower-cased;
\* an absolute path contributes its root "/" as the first component.
RECURSIVE PartsLeafFirst(_)
PartsLeafFirst(rp) ==
    LET sp == OsPathSplit(rp)
    IN  IF sp.tail # <<>> THEN <<sp.tail>> \o PartsLeafFirst(sp.head)
        ELSE IF sp.head # <<>> THEN <<sp.head>>
        ELSE <<>>

Reverse(q) == [i \in 1..Len(q) |-> q[Len(q) + 1 - i]]

PathParts(r) == LET q == Reverse(PartsLeafFirst(r)) IN [i \in 1..Len(q) |-> Lower(q[i])]

(***************************************************************************)
(*                MainWindow._find_obb_package_dirs (405-459)              *)
(***************************************************************************)

Ext_obb == <<".", "o", "b", "b">>
Seg_android == <<"a", "n", "d", "r", "o", "i", "d">>
Seg_obb == <<"o", "b", "b">>
Dir_Android == <<"A", "n", "d", "r", "o", "i", "d">>
Dir_obb == <<"o", "b", "b">>
Dir_OBB == <<"O", "B", "B">>
Dir_pkg == <<"c", "o", "m", ".", "e", "x", "a", "m", "p", "l", "e", ".", "a", "p", "p">>
Dir_extra == <<"e", "x", "t", "r", "a">>
Name_data_obb == <<"d", "a", "t", "a", ".", "o", "b", "b">>
Name_main_OBB == <<"m", "a", "i", "n", ".", "O", "B", "B">>

\* tempfile.mkdtemp(prefix="sageadb_"): an absolute path (line 387).
TempDir == <<"/", "t", "m", "p", "/", "s", "a", "g", "e", "a", "d", "b", "_">>

\* The path os.walk reports for directory d of the extracted tree.
RECURSIVE PathOf(_)
PathOf(d) ==
    IF d = <<>> THEN TempDir
    ELSE OsPathJoin(PathOf(SubSeq(d, 1, Len(d) - 1)), d[Len(d)])

\* A path as the operating system resolves it: a relative path is taken
\* from the working directory.
Resolve(cwd, q) == OsPathJoin(cwd, q)

\* Whether q names a directory; the directories of the extracted tree are
\* the only ones below the temporary directory.
IsDir(t, cwd, q) == \E d \in DirsOf(t) : PathOf(d) = Resolve(cwd, q)

\* os.listdir(q) for a q that names a directory: the names of its files
\* and of its subdirectories. (It raises an OSError otherwise.)
ListDir(t, cwd, q) ==
    LET d == CHOOSE e \in DirsOf(t) : PathOf(e) = Resolve(cwd, q)
    IN  {f.name : f \in {g \in t : g.dir = d}} \cup
        {e[Len(e)] : e \in ChildDirs(DirsOf(t), d)}

\* A dict that keeps the value a key was first given.
DictSetKeepFirst(items, key, value) ==
    IF \E i \in 1..Len(items) : items[i].pkg = key THEN items
    ELSE Append(items, [pkg |-> key, dir |-> value])

\* obb_pkg_dirs[key] = value on a dict kept as its items in insertion order.
DictSet(items, key, value) ==
    IF \E i \in 1..Len(items) : items[i].pkg = key
    THEN [i \in 1..Len(items) |->
            IF items[i].pkg = key THEN [pkg |-> key, dir |-> value] ELSE items[i]]
    ELSE Append(items, [pkg |-> key, dir |-> value])

\* Index of the first occurrence of c in s behind position from, 0 if none:
\* parts.index("obb", idx_android + 1).
IndexAfter(s, c, from) ==
    IF \E i \in (from + 1)..Len(s) : s[i] = c
    THEN CHOOSE i \in (from + 1)..Len(s) :
             s[i] = c /\ \A j \in (from + 1)..(i - 1) : s[j] # c
    ELSE 0

\* line 450 with the separator os.path.join drops put back: the package
\* directory rebuilt as an absolute path.
PkgDirRealAbsolute(path_segments, i) ==
    <<"/">> \o OsPathJoinAll(SubSeq(path_segments, 1, i + 1))

\* line 450: pkg_dir_real = os.path.join(*path_segments[:i+2]), i counted
\* from 1 here.
PkgDirReal(path_segments, i) == OsPathJoinAll(SubSeq(path_segments, 1, i + 1))

\* lines 446-455: the first segment of r that is "obb" and has a successor
\* names the package directory; it is recorded if listing it shows an .obb
\* entry. An OSError of os.listdir is swallowed by line 456.
RecordPkgDir(t, cwd, items, r) ==
    LET path_segments == Split(r, "/")
        hits == {i \in 1..(Len(path_segments) - 1) : Lower(path_segments[i]) = Seg_obb}
    IN  IF hits = {} THEN items
        ELSE LET i == CHOOSE k \in hits : \A j \in hits : k <= j
                 pkg_dir_real == PkgDirReal(path_segments, i)
             IN  IF ~IsDir(t, cwd, pkg_dir_real) THEN items
                 ELSE IF \E n \in ListDir(t, cwd, pkg_dir_real) :
                             EndsWith(Lower(n), Ext_obb)
                      THEN DictSet(items, Basename(pkg_dir_real), pkg_dir_real)
                      ELSE items

\* lines 414-458, the body of the loop for one directory d of the walk.
ObbVisit(t, cwd, items, d) ==
    LET r == PathOf(d)
        obb_files_here == {f \in t : f.dir = d /\ EndsWith(Lower(f.name), Ext_obb)}
        parts == PathParts(r)
        idx_android == IndexOf(parts, Seg_android)
        idx_obb == IndexAfter(parts, Seg_obb, idx_android)
    IN  IF obb_files_here = {} THEN items
        ELSE IF idx_android = 0 THEN items
        ELSE IF idx_obb = 0 THEN items
        ELSE IF ~(Len(parts) > idx_obb) THEN items
        ELSE RecordPkgDir(t, cwd, items, r)

\* line 452 raises while directory d is visited: the package directory
\* rebuilt by line 450 is not one os.listdir can open. Lines 456-458 swallow it.
ObbVisitRaises(t, cwd, d) ==
    LET r == PathOf(d)
        parts == PathParts(r)
        idx_android == IndexOf(parts, Seg_android)
        idx_obb == IndexAfter(parts, Seg_obb, idx_android)
        path_segments == Split(r, "/")
        hits == {i \in 1..(Len(path_segments) - 1) : Lower(path_segments[i]) = Seg_obb}
    IN  /\ \E f \in t : f.dir = d /\ EndsWith(Lower(f.name), Ext_obb)
        /\ idx_android # 0 /\ idx_obb # 0 /\ Len(parts) > idx_obb
        /\ hits # {}
        /\ ~IsDir(t, cwd, PkgDirReal(path_segments, CHOOSE k \in hits : \A j \in hits : k <= j))

\* _find_obb_package_dirs(root_dir), for one order of the walk.
RECURSIVE FindObbPackageDirs(_, _, _)
FindObbPackageDirs(t, cwd, order) ==
    IF order = <<>> THEN <<>>
    ELSE ObbVisit(t, cwd,
                  FindObbPackageDirs(t, cwd, SubSeq(order, 1, Len(order) - 1)),
                  order[Len(order)])

\* The files an archive may hold, for _find_obb_package_dirs.
ObbCandidates ==
    { [dir |-> <<Dir_Android, Dir_obb, Dir_pkg>>, name |-> Name_data_obb],
      [dir |-> <<Dir_Android, Dir_obb, Dir_pkg, Dir_extra>>, name |-> Name_main_OBB],
      [dir |-> <<Dir_Android, Dir_OBB, Dir_pkg>>, name |-> Name_data_obb],
      [dir |-> <<Dir_obb, Dir_pkg>>, name |-> Name_data_obb],
      [dir |-> <<Dir_Android, Dir_obb>>, name |-> Name_main_OBB],
      [dir |-> <<>>, name |-> Name_base_apk] }

\* Working directories of the application: the file system root, or the
\* folder the script was started from.
SampleCwds == {<<"/">>, <<"/", "o", "p", "t", "/", "s", "a", "g", "e", "a", "d", "b">>}

InitObb ==
    /\ InitWindow
    /\ tree \in SUBSET ObbCandidates
    /\ os_cwd \in SampleCwds
    /\ apk_files = <<>> /\ obb_pkg_dirs = <<>>
    /\ phase = "input"

\* The directories os.walk reported, in order: one "walk" event [k, a, b]
\* for each, a being the directory.
Walked(order) == [i \in 1..Len(order) |-> [k |-> "walk", a |-> order[i], b |-> <<>>]]

\* One call of _find_obb_package_dirs on the extracted tree.
find_obb_package_dirs ==
    /\ phase = "input"
    /\ \E order \in WalkOrders(DirsOf(tree)) :
           /\ obb_pkg_dirs' = FindObbPackageDirs(tree, os_cwd, order)
           /\ trace' = Walked(order)
    /\ phase' = "done"
    /\ UNCHANGED <<tree, os_cwd, apk_files>>
    /\ UNCHANGED <<logcatVars, logVars, op, temp_dirs, apps_list>>

NextObb == find_obb_package_dirs

ObbSpec == InitObb /\ [][NextObb]_vars

(***************************************************************************)
(*            The foreground handlers of MainWindow (348-717)              *)
(*                                                                         *)
(* A handler runs to completion on the UI thread.  What it does is written *)
(* down as a sequence of events [k, a, b]:                                 *)
(*   "run"           a = the function that called subprocess.run, b = argv *)
(*   "launch_failed" the same, for a subprocess.run / Popen that could not *)
(*                   start the program                                     *)
(*   "decode_failed" the same, for a subprocess.run that raised after the  *)
(*                   program had run                                       *)
(*   "popen"         b = argv of a process started and left running        *)
(*   "modal"         b = text of a QMessageBox.critical                    *)
(*   "log"           a = command, b = output of a call of _log             *)
(*   "return"        a = the function, b = the value it returned           *)
(*   "mkdtemp", "rmtree"   b = the directory                               *)
(*   "walk"          a = a directory os.walk reported                      *)
(*   "raise"         a = the exception that left the handler               *)
(***************************************************************************)

Ev(k, a, b) == [k |-> k, a |-> a, b |-> b]

\* self.adb_path, self.scrcpy_path, bundletool.jar (lines 88-89, 383).
AdbPath == <<"adb.exe">>
ScrcpyPath == <<"scrcpy.exe">>
BundletoolPath == <<"bundletool.jar">>

None == <<"None">>

\* What subprocess.run can do with a command: fail to launch it (str(e) is
\* the text of the exception), run it to completion and capture its
\* standard output and standard error, or run it to completion and raise
\* UnicodeDecodeError because text=True cannot decode what it wrote.
SampleRuns ==
    { [launch |-> "error", msg |-> <<"[WinError 2]">>, stdout |-> <<>>, stderr |-> <<>>],
      [launch |-> "undecodable", msg |-> <<"codec can't decode byte">>,
       stdout |-> <<>>, stderr |-> <<>>],
      [launch |-> "ok", msg |-> <<>>, stdout |-> <<>>, stderr |-> <<>>],
      [launch |-> "ok", msg |-> <<>>, stdout |-> <<"a", "\n", "b", "\n">>, stderr |-> <<>>],
      [launch |-> "ok", msg |-> <<>>, stdout |-> <<>>, stderr |-> <<" ", "e", "\n">>] }

\* line 710: result.stdout.strip() + "\n" + result.stderr.strip()
CombinedOutput(res) == Strip(res.stdout) \o <<"\n">> \o Strip(res.stderr)

\* subprocess.run raised: the program was not started, or it ran and its
\* output could not be decoded.
RunRaised(who, args, res) ==
    IF res.launch = "error" THEN <<Ev("launch_failed", who, args)>>
    ELSE <<Ev("run", who, args), Ev("decode_failed", who, args)>>

\* A run_adb_command whose except clause re-raises after reporting.
RunAdbCommandReraise(args, return_output, res) ==
    IF res.launch = "ok"
    THEN <<Ev("run", <<"run_adb_command">>, args),
           Ev("log", Join(args), CombinedOutput(res)),
           Ev("return", <<"run_adb_command">>,
              IF return_output THEN res.stdout ELSE None)>>
    ELSE <<Ev("launch_failed", <<"run_adb_command">>, args),
           Ev("modal", <<"Error">>, res.msg),
           Ev("log", <<"Error running command: ">> \o Join(args), res.msg),
           Ev("raise", <<"OSError">>, <<>>)>>

\* run_adb_command(args, return_output) (lines 701-717): its events, the
\* last of which is its return.
RunAdbCommand(args, return_output, res) ==
    IF res.launch = "ok"
    THEN <<Ev("run", <<"run_adb_command">>, args),
           Ev("log", Join(args), CombinedOutput(res)),
           Ev("return", <<"run_adb_command">>,
              IF return_output THEN res.stdout ELSE None)>>
    ELSE RunRaised(<<"run_adb_command">>, args, res) \o
         <<Ev("modal", <<"Error">>, res.msg),
           Ev("log", <<"Error running command: ">> \o Join(args), res.msg),
           Ev("return", <<"run_adb_command">>, None)>>

\* The value a run_adb_command whose events are evs returned.
Returned(evs) == evs[Len(evs)].b

\* _log(command, output) as a handler calls it.
LogEv(command, output) == <<Ev("log", command, output)>>

\* The calls of _log among evs, applied in order to the views and the file.
RECURSIVE ApplyLogs(_, _, _, _)
ApplyLogs(st, evs, ts, ok) ==
    IF evs = <<>> THEN st
    ELSE ApplyLogs(IF Head(evs).k = "log"
                   THEN LogCall(st, ts, Head(evs).a, Head(evs).b, ok)
                   ELSE st,
                   Tail(evs), ts, ok)

\* Directories made by mkdtemp and not removed again.
RECURSIVE TempBalance(_)
TempBalance(evs) ==
    IF evs = <<>> THEN 0
    ELSE (IF Head(evs).k = "mkdtemp" THEN 1
          ELSE IF Head(evs).k = "rmtree" THEN -1 ELSE 0) + TempBalance(Tail(evs))

MaxOps == 2

\* time.strftime("[%H:%M:%S]") during the n-th handler of the session: the
\* clock moves on from one handler to the next.
ClockAt(n) == IF n = 0 THEN "[12:00:00]" ELSE "[12:00:01]"

\* A handler ran: its events are recorded, and its calls of _log reach the
\* main view and debug.txt.  One clock reading serves the whole handler, and
\* debug.txt is writable while it runs (LogSpec covers the write that fails).
Handled(o, evs) ==
    /\ nOps < MaxOps
    /\ mpc = "idle" /\ ~closed
    /\ nOps' = nOps + 1
    /\ op' = o
    /\ trace' = evs
    /\ temp_dirs' = temp_dirs + TempBalance(evs)
    /\ LET st == ApplyLogs(LogState, evs, ClockAt(nOps), TRUE)
       IN  /\ log_output' = st.view
           /\ debug_file' = st.file
           /\ writeFailed' = st.failed
    /\ UNCHANGED logcat_output
    /\ UNCHANGED logcatVars

\* What the user may have typed into a one-line input field.
SampleFields ==
    { <<>>, <<" ", " ">>, <<"a">>, <<" ", "a", " ", "b", " ">>,
      <<"a", " ", "\"", "b", " ", "c", "\"">>, <<"a", " ", "\"", "b">> }

\* shlex.split(s), for text made of letters, blanks and double quotes: the
\* words, a quoted stretch staying inside its word; text that ends inside a
\* quote raises ValueError("No closing quotation").  st is "blank" between
\* words, "word" inside one, "quote" inside a quoted stretch.
RECURSIVE Shlex(_, _, _, _)
Shlex(s, st, tok, out) ==
    IF s = <<>>
    THEN IF st = "quote" THEN [ok |-> FALSE, args |-> <<>>]
         ELSE IF st = "word" THEN [ok |-> TRUE, args |-> Append(out, tok)]
         ELSE [ok |-> TRUE, args |-> out]
    ELSE LET c == Head(s)
         IN  IF st = "quote"
             THEN IF c = "\"" THEN Shlex(Tail(s), "word", tok, out)
                  ELSE Shlex(Tail(s), "quote", Append(tok, c), out)
             ELSE IF c = "\"" THEN Shlex(Tail(s), "quote", tok, out)
             ELSE IF IsSpace(c)
                  THEN IF st = "word" THEN Shlex(Tail(s), "blank", <<>>, Append(out, tok))
                       ELSE Shlex(Tail(s), "blank", <<>>, out)
             ELSE Shlex(Tail(s), "word", Append(tok, c), out)

ShlexSplit(s) == Shlex(s, "blank", <<>>, <<>>)

\* adb_connect_usb (lines 348-349)
AdbConnectUsb(res) == RunAdbCommand(<<AdbPath, <<"devices">>>>, FALSE, res)

\* An adb_connect_wifi that tests the field as typed, without strip().
AdbConnectWifiNoStrip(text, res) ==
    IF text # <<>> THEN RunAdbCommand(<<AdbPath, <<"connect">>, text>>, FALSE, res)
    ELSE LogEv(<<>>, <<"IP address cannot be empty.">>)

\* adb_connect_wifi (lines 351-356)
AdbConnectWifi(text, res) ==
    LET ip == Strip(text)
    IN  IF ip # <<>> THEN RunAdbCommand(<<AdbPath, <<"connect">>, ip>>, FALSE, res)
        ELSE LogEv(<<>>, <<"IP address cannot be empty.">>)

\* run_custom_command (lines 358-365)
RunCustomCommand(text, res) ==
    LET cmd_text == Strip(text)
        sp == ShlexSplit(cmd_text)
    IN  IF cmd_text = <<>> THEN LogEv(<<>>, <<"No command entered.">>)
        ELSE IF ~sp.ok THEN <<Ev("raise", <<"ValueError">>, <<>>)>>
        ELSE RunAdbCommand(<<AdbPath>> \o sp.args, FALSE, res)

\* push_obb_folder (lines 560-569); isdir is os.path.isdir(source_path).
PushObbFolder(text, isdir, res) ==
    LET source_path == Strip(text)
    IN  IF source_path = <<>> THEN LogEv(<<>>, <<"No source folder specified.">>)
        ELSE IF ~isdir
             THEN LogEv(<<>>, <<"Error: The specified path is not a valid folder: ">>
                               \o source_path)
        ELSE RunAdbCommand(<<AdbPath, <<"push">>, source_path, <<"/sdcard/Android/obb/">>>>,
                           FALSE, res)

\* reboot_device(mode) (lines 620-624)
RebootDevice(mode, res) ==
    RunAdbCommand(IF mode # <<>> THEN <<AdbPath, <<"reboot">>, mode>>
                  ELSE <<AdbPath, <<"reboot">>>>, FALSE, res)

adb_connect_usb ==
    \E res \in SampleRuns :
        Handled([name |-> "adb_connect_usb"], AdbConnectUsb(res))
        /\ UNCHANGED <<fsVars, apps_list>>

adb_connect_wifi ==
    \E text \in SampleFields, res \in SampleRuns :
        Handled([name |-> "adb_connect_wifi", text |-> text], AdbConnectWifi(text, res))
        /\ UNCHANGED <<fsVars, apps_list>>

run_custom_command ==
    \E text \in SampleFields, res \in SampleRuns :
        Handled([name |-> "run_custom_command", text |-> text], RunCustomCommand(text, res))
        /\ UNCHANGED <<fsVars, apps_list>>

push_obb_folder ==
    \E text \in SampleFields, isdir \in BOOLEAN, res \in SampleRuns :
        Handled([name |-> "push_obb_folder", text |-> text, isdir |-> isdir],
                PushObbFolder(text, isdir, res))
        /\ UNCHANGED <<fsVars, apps_list>>

reboot_device ==
    \E mode \in {<<>>, <<"recovery">>, <<"bootloader">>}, res \in SampleRuns :
        Handled([name |-> "reboot_device", mode |-> mode], RebootDevice(mode, res))
        /\ UNCHANGED <<fsVars, apps_list>>

(***************************************************************************)
(*                 Numbers as text: str.isdigit, int, str                  *)
(***************************************************************************)

Digits == <<"0", "1", "2", "3", "4", "5", "6", "7", "8", "9">>

IsDigit(c) == \E i \in 1..Len(Digits) : Digits[i] = c

\* s.isdigit()
IsDigitText(s) == s # <<>> /\ \A i \in 1..Len(s) : IsDigit(s[i])

DigitValue(c) == (CHOOSE i \in 1..Len(Digits) : Digits[i] = c) - 1

\* int(s) for a text of digits
RECURSIVE TextToInt(_)
TextToInt(s) ==
    IF s = <<>> THEN 0
    ELSE Len(Digits) * TextToInt(SubSeq(s, 1, Len(s) - 1)) + DigitValue(s[Len(s)])

\* str(n) for n >= 0
RECURSIVE IntToText(_)
IntToText(n) ==
    IF n < Len(Digits) THEN <<Digits[n + 1]>>
    ELSE IntToText(n \div Len(Digits)) \o <<Digits[(n % Len(Digits)) + 1]>>

Max(a, b) == IF a > b THEN a ELSE b

(***************************************************************************)
(*        set_dpi, launch_scrcpy_mirror, launch_scrcpy_new_display         *)
(***************************************************************************)

\* set_dpi (lines 615-618)
SetDpi(dpi, res) ==
    RunAdbCommand(<<AdbPath, <<"shell">>, <<"wm">>, <<"density">>, IntToText(dpi)>>,
                  FALSE, res)
    \o LogEv(<<>>, <<"Note: You may need to reboot your device for DPI changes to apply system-wide.">>)

\* lines 675 and 698: subprocess.Popen(cmd) outside any try; a launch that
\* fails raises out of the handler.
ScrcpyPopen(cmd, launched) ==
    IF launched THEN <<Ev("popen", <<"scrcpy">>, cmd)>>
    ELSE <<Ev("launch_failed", <<"scrcpy">>, cmd), Ev("raise", <<"OSError">>, <<>>)>>

\* lines 671-673 and 693-695: the --max-fps arguments
FpsArgs(fps) == IF fps > 0 THEN <<<<"--max-fps">>, IntToText(fps)>> ELSE <<>>

\* lines 665-670: the -m arguments
MaxSizeArgs(text) ==
    LET resolution == Lower(Strip(text))
        parts == Split(resolution, "x")
    IN  IF Contains(resolution, <<"x">>) /\ Len(parts) = 2
           /\ IsDigitText(parts[1]) /\ IsDigitText(parts[2])
        THEN <<<<"-m">>, IntToText(Max(TextToInt(parts[1]), TextToInt(parts[2])))>>
        ELSE <<>>

\* launch_scrcpy_mirror (lines 660-675); exists is
\* os.path.exists(self.scrcpy_path).
LaunchScrcpyMirror(exists, text, fps, launched) ==
    IF ~exists THEN <<Ev("modal", <<"Error">>, <<"scrcpy.exe not found at:">>)>>
    ELSE LET cmd == <<ScrcpyPath>> \o MaxSizeArgs(text) \o FpsArgs(fps)
         IN  LogEv(Join(cmd), <<"Starting scrcpy (Mirror Mode)...">>)
             \o ScrcpyPopen(cmd, launched)

\* lines 683-692: the --new-display argument
NewDisplayArg(text, dpi) ==
    LET resolution == Lower(Strip(text))
    IN  IF resolution # <<>> \/ dpi > 0
        THEN <<"--new-display=">> \o resolution
             \o (IF dpi > 0 THEN <<"/">> \o IntToText(dpi) ELSE <<>>)
        ELSE <<"--new-display">>

\* launch_scrcpy_new_display (lines 677-698)
LaunchScrcpyNewDisplay(exists, text, dpi, fps, launched) ==
    IF ~exists THEN <<Ev("modal", <<"Error">>, <<"scrcpy.exe not found at:">>)>>
    ELSE LET cmd == <<ScrcpyPath, NewDisplayArg(text, dpi)>> \o FpsArgs(fps)
         IN  LogEv(Join(cmd), <<"Starting scrcpy (New Display Mode)...">>)
             \o ScrcpyPopen(cmd, launched)

SampleResolutions ==
    { <<>>, <<"1", "2", "x", "7">>, <<" ", "7", "X", "1", "2">>, <<"a", "x", "b">>,
      <<"1", "x", "2", "x", "3">>, <<"1", "2", "x">> }
SampleFps == {0, 30}
SampleScrcpyDpi == {0, 160}
SampleDpi == {100, 320}

set_dpi ==
    \E dpi \in SampleDpi, res \in SampleRuns :
        Handled([name |-> "set_dpi", dpi |-> dpi], SetDpi(dpi, res))
        /\ UNCHANGED <<fsVars, apps_list>>

launch_scrcpy_mirror ==
    \E exists \in BOOLEAN, text \in SampleResolutions, fps \in SampleFps,
       launched \in BOOLEAN :
        Handled([name |-> "launch_scrcpy_mirror", text |-> text, fps |-> fps],
                LaunchScrcpyMirror(exists, text, fps, launched))
        /\ UNCHANGED <<fsVars, apps_list>>

launch_scrcpy_new_display ==
    \E exists \in BOOLEAN, text \in SampleResolutions, dpi \in SampleScrcpyDpi,
       fps \in SampleFps, launched \in BOOLEAN :
        Handled([name |-> "launch_scrcpy_new_display", text |-> text,
                 dpi |-> dpi, fps |-> fps],
                LaunchScrcpyNewDisplay(exists, text, dpi, fps, launched))
        /\ UNCHANGED <<fsVars, apps_list>>

(***************************************************************************)
(*             refresh_app_list and filter_app_list (571-599)              *)
(***************************************************************************)

\* line.replace("package:", ""), "package:" being one symbol of the text.
RECURSIVE RemovePrefixWord(_)
RemovePrefixWord(line) ==
    IF line = <<>> THEN <<>>
    ELSE IF Head(line) = "package:" THEN RemovePrefixWord(Tail(line))
    ELSE <<Head(line)>> \o RemovePrefixWord(Tail(line))

\* [line.replace("package:", "").strip() for line in out.splitlines()]
PackageNames(out) ==
    LET ls == SplitLines(out)
    IN  [i \in 1..Len(ls) |-> Strip(RemovePrefixWord(ls[i]))]

\* sorted(names)
RECURSIVE InsertText(_, _)
InsertText(sorted, x) ==
    IF sorted = <<>> THEN <<x>>
    ELSE IF StrLess(x, Head(sorted)) THEN <<x>> \o sorted
    ELSE <<Head(sorted)>> \o InsertText(Tail(sorted), x)

\* The names left in the order of the output, not sorted.
KeepOrder(l) == l

RECURSIVE SortTexts(_)
SortTexts(l) ==
    IF l = <<>> THEN <<>>
    ELSE InsertText(SortTexts(SubSeq(l, 1, Len(l) - 1)), l[Len(l)])

Msg_could_not == <<"C", "o", "u", "l", "d", " ", "n", "o", "t", " ", "r", "e", "t", "r", "i", "e", "v", "e", " ", "a", "p", "p", "s", ".">>

\* A value of Python is true: neither None nor an empty str.
Truthy(v) == v # None /\ v # <<>>

\* lines 579-592: the list rebuilt from the two outputs, then filter_app_list
\* (lines 594-599) hiding the items that do not contain the search text.
AppsList(all_apps, disabled_apps, search) ==
    LET disabled_set == IF Truthy(disabled_apps)
                        THEN {PackageNames(disabled_apps)[i] :
                                 i \in 1..Len(PackageNames(disabled_apps))}
                        ELSE {}
        names == IF Truthy(all_apps) THEN SortTexts(PackageNames(all_apps))
                 ELSE <<Msg_could_not>>
    IN  [i \in 1..Len(names) |->
            [text |-> names[i],
             red |-> Truthy(all_apps) /\ names[i] \in disabled_set,
             hidden |-> ~Contains(Lower(names[i]), Lower(search))]]

SamplePmRuns ==
    { [launch |-> "error", msg |-> <<"[WinError 2]">>, stdout |-> <<>>, stderr |-> <<>>],
      [launch |-> "undecodable", msg |-> <<"codec can't decode byte">>,
       stdout |-> <<>>, stderr |-> <<>>],
      [launch |-> "ok", msg |-> <<>>, stdout |-> <<>>, stderr |-> <<"e">>],
      [launch |-> "ok", msg |-> <<>>,
       stdout |-> <<"package:", "b", "\n", "package:", "a", "\n">>, stderr |-> <<>>] }
SamplePmDisabledRuns ==
    { [launch |-> "error", msg |-> <<"[WinError 2]">>, stdout |-> <<>>, stderr |-> <<>>],
      [launch |-> "ok", msg |-> <<>>, stdout |-> <<"package:", "a", "\n">>, stderr |-> <<>>] }
SampleSearches == {<<>>, <<"A">>}

\* refresh_app_list (lines 571-592)
refresh_app_list ==
    \E r1 \in SamplePmRuns, r2 \in SamplePmDisabledRuns, search \in SampleSearches :
        LET e1 == RunAdbCommand(<<AdbPath, <<"shell">>, <<"pm">>, <<"list">>,
                                  <<"packages">>>>, TRUE, r1)
            e2 == RunAdbCommand(<<AdbPath, <<"shell">>, <<"pm">>, <<"list">>,
                                  <<"packages">>, <<"-d">>>>, TRUE, r2)
        IN  /\ Handled([name |-> "refresh_app_list", search |-> search], e1 \o e2)
            /\ apps_list' = AppsList(Returned(e1), Returned(e2), search)
            /\ UNCHANGED fsVars

(***************************************************************************)
(*                     enable_app, disable_app (601-613)                   *)
(***************************************************************************)

\* The two calls of run_adb_command refresh_app_list makes (lines 576-577).
RefreshRuns(r1, r2) ==
    [all |-> RunAdbCommand(<<AdbPath, <<"shell">>, <<"pm">>, <<"list">>,
                             <<"packages">>>>, TRUE, r1),
     disabled |-> RunAdbCommand(<<AdbPath, <<"shell">>, <<"pm">>, <<"list">>,
                                  <<"packages">>, <<"-d">>>>, TRUE, r2)]

\* enable_app / disable_app with verb "enable" / "disable-user": item is an
\* index into apps_list, or 0 when currentItem() is None.
ToggleApp(verb, item, res, r1, r2, search) ==
    /\ item \in 0..Len(apps_list)
    /\ IF item = 0
       THEN /\ Handled([name |-> verb, pkg |-> None], <<>>)
            /\ UNCHANGED apps_list
       ELSE LET pkg == apps_list[item].text
                rr == RefreshRuns(r1, r2)
            IN  /\ Handled([name |-> verb, pkg |-> pkg],
                           RunAdbCommand(<<AdbPath, <<"shell">>, <<"pm">>, <<verb>>, pkg>>,
                                         FALSE, res)
                           \o rr.all \o rr.disabled)
                /\ apps_list' = AppsList(Returned(rr.all), Returned(rr.disabled), search)
    /\ UNCHANGED fsVars

enable_app ==
    \E item \in 0..Len(apps_list), res \in SampleRuns, r1 \in SamplePmRuns,
       r2 \in SamplePmDisabledRuns, search \in SampleSearches :
        ToggleApp("enable", item, res, r1, r2, search)

disable_app ==
    \E item \in 0..Len(apps_list), res \in SampleRuns, r1 \in SamplePmRuns,
       r2 \in SamplePmDisabledRuns, search \in SampleSearches :
        ToggleApp("disable-user", item, res, r1, r2, search)

(***************************************************************************)
(*                          install_app (476-556)                          *)
(***************************************************************************)

\* Index of the last occurrence of c in s, 0 if none: s.rfind(c) + 1.
LastIndexOf(s, c) ==
    IF \E i \in 1..Len(s) : s[i] = c
    THEN CHOOSE i \in 1..Len(s) : s[i] = c /\ \A j \in (i + 1)..Len(s) : s[j] # c
    ELSE 0

\* os.path.splitext(p)[1]: from the last dot of the last component on,
\* unless that component has nothing but dots before it.
SplitExt(p) ==
    LET sepIndex == LastIndexOf(p, "/")
        dotIndex == LastIndexOf(p, ".")
    IN  IF dotIndex > sepIndex
           /\ \E k \in (sepIndex + 1)..(dotIndex - 1) : p[k] # "."
        THEN SubSeq(p, dotIndex, Len(p))
        ELSE <<>>

Ext_apks == <<".", "a", "p", "k", "s">>
Ext_apkm == <<".", "a", "p", "k", "m">>
Ext_xapk == <<".", "x", "a", "p", "k">>

\* lines 495-511: bundletool, run inside its own try.
InstallApks(path, res) ==
    LET cmd == <<<<"java">>, <<"-jar">>, BundletoolPath, <<"install-apks">>,
                 <<"--apks=">> \o path, <<"--adb=">> \o AdbPath>>
    IN  IF res.launch = "ok"
        THEN <<Ev("run", <<"bundletool">>, cmd)>> \o LogEv(Join(cmd), CombinedOutput(res))
        ELSE RunRaised(<<"bundletool">>, cmd, res)
             \o <<Ev("modal", <<"Error">>, res.msg)>>
             \o LogEv(Join(cmd), <<"Error running bundletool: ">> \o res.msg)

\* A _push_obb_dirs that pushes before it creates the remote directory.
RECURSIVE PushObbDirsPushFirst(_, _)
PushObbDirsPushFirst(items, res) ==
    IF items = <<>> THEN <<>>
    ELSE LET remote_pkg_dir == <<"/sdcard/Android/obb/">> \o Head(items).pkg
         IN  LogEv(<<>>, <<"Pushing OBB assets for ">> \o Head(items).pkg \o <<"...">>)
             \o RunAdbCommand(<<AdbPath, <<"push">>, Head(items).dir, remote_pkg_dir>>,
                              FALSE, res)
             \o RunAdbCommand(<<AdbPath, <<"shell">>, <<"mkdir">>, <<"-p">>, remote_pkg_dir>>,
                              FALSE, res)
             \o PushObbDirsPushFirst(Tail(items), res)

\* _push_obb_dirs (lines 461-474) over the items of the dict, in order.
RECURSIVE PushObbDirs(_, _)
PushObbDirs(items, res) ==
    IF items = <<>> THEN <<>>
    ELSE LET remote_pkg_dir == <<"/sdcard/Android/obb/">> \o Head(items).pkg
         IN  RunAdbCommand(<<AdbPath, <<"shell">>, <<"mkdir">>, <<"-p">>, remote_pkg_dir>>,
                           FALSE, res)
             \o LogEv(<<>>, <<"Pushing OBB assets for ">> \o Head(items).pkg \o <<"...">>)
             \o RunAdbCommand(<<AdbPath, <<"push">>, Head(items).dir, remote_pkg_dir>>,
                              FALSE, res)
             \o PushObbDirs(Tail(items), res)

\* sorted(obb_pkg_dirs.keys()) joined by ", "
RECURSIVE JoinComma(_)
JoinComma(l) ==
    IF l = <<>> THEN <<>>
    ELSE IF Len(l) = 1 THEN l[1]
    ELSE l[1] \o <<",", " ">> \o JoinComma(Tail(l))

\* An install_app that leaves the OBB assets alone.
ObbStepSkipped(items, resPush) == <<>>

\* lines 533-539: detection and push of the OBB assets.
ObbStep(items, resPush) ==
    IF items # <<>>
    THEN LogEv(<<>>, <<"Detected OBB packages: ">>
                     \o JoinComma(SortTexts([i \in 1..Len(items) |-> items[i].pkg])))
         \o PushObbDirs(items, resPush)
    ELSE LogEv(<<>>, <<"No OBB assets detected in this package.">>)

\* lines 544-546: the generic handler
GenericError(msg) ==
    <<Ev("modal", <<"Error">>, msg)>>
    \o LogEv(<<>>, <<"Error installing split package: ">> \o msg)

\* An except clause for zipfile.BadZipFile that reports like the generic one.
InvalidArchiveAsGeneric(path, ext) == GenericError(<<"File is not a zip file">>)

\* lines 541-543: the handler of zipfile.BadZipFile
InvalidArchive(path, ext) ==
    <<Ev("modal", <<"Error">>, <<"Invalid ">> \o ext \o <<" file (not a valid ZIP archive).">>)>>
    \o LogEv(<<>>, <<"Failed to read ">> \o path \o <<": invalid archive.">>)

\* os.path.join(r, fname) of line 398 for the files found.
ApkPaths(files) == [i \in 1..Len(files) |-> OsPathJoin(PathOf(files[i].dir), files[i].name)]

\* An install_app whose clean-up runs as soon as the files are collected,
\* before the commands that read them.
InstallSplitRemoveFirst(path, ext, arch, res, resPush, files, items) ==
    IF arch.kind = "mkdtemp_fails" THEN GenericError(arch.msg)
    ELSE IF arch.kind = "notzip"
         THEN <<Ev("mkdtemp", TempDir, <<>>)>> \o InvalidArchive(path, ext)
    ELSE IF arch.kind \in {"missing", "partial"}
         THEN <<Ev("mkdtemp", TempDir, <<>>)>> \o GenericError(arch.msg)
    ELSE <<Ev("mkdtemp", TempDir, <<>>), Ev("extract", TempDir, <<>>),
           Ev("rmtree", TempDir, <<>>)>>
         \o (IF files = <<>>
             THEN LogEv(<<>>, <<"No .apk files found inside ">> \o ext \o <<" package.">>)
                  \o ObbStep(items, resPush)
             ELSE LET cmd == <<AdbPath, <<"install-multiple">>>> \o ApkPaths(files)
                  IN  IF res.launch = "ok"
                      THEN <<Ev("run", <<"install-multiple">>, cmd)>>
                           \o LogEv(Join(cmd), CombinedOutput(res))
                           \o ObbStep(items, resPush)
                      ELSE RunRaised(<<"install-multiple">>, cmd, res)
                           \o GenericError(res.msg))

\* lines 514-553.  arch says what _extract_zip_to_temp meets: mkdtemp itself
\* failing, a file that is missing, not a zip, or whose extraction stops part
\* way, or a zip holding arch.tree.  temp_dir of install_app is bound only when
\* _extract_zip_to_temp returns (line 517), and line 548 removes only a
\* bound temp_dir.
InstallSplit(path, ext, arch, res, resPush, files, items) ==
    IF arch.kind = "mkdtemp_fails" THEN GenericError(arch.msg)
    ELSE IF arch.kind = "notzip"
         THEN <<Ev("mkdtemp", TempDir, <<>>)>> \o InvalidArchive(path, ext)
    ELSE IF arch.kind \in {"missing", "partial"}
         THEN <<Ev("mkdtemp", TempDir, <<>>)>> \o GenericError(arch.msg)
    ELSE <<Ev("mkdtemp", TempDir, <<>>), Ev("extract", TempDir, <<>>)>>
         \o (IF files = <<>>
             THEN LogEv(<<>>, <<"No .apk files found inside ">> \o ext \o <<" package.">>)
                  \o ObbStep(items, resPush)
             ELSE LET cmd == <<AdbPath, <<"install-multiple">>>> \o ApkPaths(files)
                  IN  IF res.launch = "ok"
                      THEN <<Ev("run", <<"install-multiple">>, cmd)>>
                           \o LogEv(Join(cmd), CombinedOutput(res))
                           \o ObbStep(items, resPush)
                      ELSE RunRaised(<<"install-multiple">>, cmd, res)
                           \o GenericError(res.msg))
         \o <<Ev("rmtree", TempDir, <<>>)>>

\* An install_app that falls off its end without a word.
UnsupportedSilent(ext) == <<>>

\* line 556: no strategy for this extension
Unsupported(ext) ==
    LogEv(<<>>, <<"Unsupported file type: ">> \o ext
                \o <<". Supported: .apk, .apkm, .xapk, .apks">>)

\* install_app, lines 476-556.
InstallApp(text, bt, arch, res, resPush, files, items) ==
    LET path == Strip(text)
        ext == Lower(SplitExt(path))
    IN  IF path = <<>> THEN LogEv(<<>>, <<"No APK path specified.">>)
        ELSE IF ext = Ext_apk
             THEN RunAdbCommand(<<AdbPath, <<"install">>, path>>, FALSE, res)
        ELSE IF ext = Ext_apks
             THEN IF ~bt
                  THEN <<Ev("modal", <<"Error">>, <<"bundletool.jar not found in:">>)>>
                       \o LogEv(<<>>, <<"bundletool.jar is required to install .apks archives.">>)
                  ELSE InstallApks(path, res)
        ELSE IF ext \in {Ext_apkm, Ext_xapk}
             THEN InstallSplit(path, ext, arch, res, resPush, files, items)
        ELSE Unsupported(ext)

SamplePaths ==
    { <<>>, <<" ">>, <<"b", ".", "a", "p", "k">>, <<" ", "b", ".", "A", "P", "K", " ">>, <<"b", ".", "a", "p", "k", "s">>, <<"b", ".", "a", "p", "k", "m">>, <<"b", ".", "X", "A", "P", "K">>,
      <<"b", ".", "z", "i", "p">>, <<"b">>, <<".", "a", "p", "k">>, <<"b", ".", "a", "p", "k", "/", "c">>, <<"b", ".", "a", "p", "k", ".">>, <<"b", ".", "x", "a", "p", "k", ".", "b", "a", "k">> }

NoArchive == [kind |-> "none", msg |-> <<>>, tree |-> {}]

SampleArchives ==
    { [kind |-> "mkdtemp_fails", msg |-> <<"[Errno 13] Permission denied">>, tree |-> {}],
      [kind |-> "notzip", msg |-> <<"File is not a zip file">>, tree |-> {}],
      [kind |-> "missing", msg |-> <<"[Errno 2] No such file or directory">>, tree |-> {}],
      [kind |-> "partial", msg |-> <<"[Errno 28] No space left on device">>,
       tree |-> {[dir |-> <<>>, name |-> Name_base_apk]}],
      [kind |-> "zip", msg |-> <<>>, tree |-> {}],
      [kind |-> "zip", msg |-> <<>>, tree |-> {[dir |-> <<>>, name |-> Name_notes_txt]}],
      [kind |-> "zip", msg |-> <<>>,
       tree |-> {[dir |-> <<>>, name |-> Name_base_apk],
                 [dir |-> <<>>, name |-> Name_split1_apk]}],
      [kind |-> "zip", msg |-> <<>>,
       tree |-> {[dir |-> <<>>, name |-> Name_base_apk],
                 [dir |-> <<Dir_Android, Dir_obb, Dir_pkg>>, name |-> Name_data_obb]}] }

IsSplitExt(text) == Lower(SplitExt(Strip(text))) \in {Ext_apkm, Ext_xapk}

\* The inputs that matter to one call of install_app.
ArchivesFor(text) == IF IsSplitExt(text) THEN SampleArchives ELSE {NoArchive}
BundletoolFor(text) ==
    IF Lower(SplitExt(Strip(text))) = Ext_apks THEN BOOLEAN ELSE {TRUE}
PushRunsFor(arch) ==
    IF \E f \in arch.tree : EndsWith(Lower(f.name), Ext_obb) THEN SampleRuns
    ELSE {CHOOSE r \in SampleRuns : r.launch = "ok" /\ r.stdout = <<>> /\ r.stderr = <<>>}

install_app ==
    \E text \in SamplePaths :
      \E bt \in BundletoolFor(text), arch \in ArchivesFor(text), res \in SampleRuns :
        \E resPush \in PushRunsFor(arch),
           order \in WalkOrders(DirsOf(arch.tree)), fperm \in Perms(arch.tree) :
          LET extracted == arch.kind = "zip"
              files == IF extracted THEN CollectApkFiles(order, fperm) ELSE <<>>
              items == IF extracted THEN FindObbPackageDirs(arch.tree, os_cwd, order)
                       ELSE <<>>
          IN  /\ Handled([name |-> "install_app", text |-> text, bt |-> bt,
                          arch |-> arch.kind],
                         InstallApp(text, bt, arch, res, resPush, files, items))
              /\ tree' = arch.tree
              /\ apk_files' = files
              /\ obb_pkg_dirs' = items
              /\ UNCHANGED <<os_cwd, phase, apps_list>>

(***************************************************************************)
(*   _find_obb_package_dirs followed by _push_obb_dirs (lines 533-537)     *)
(***************************************************************************)

Dir_pkg2 == <<"o", "r", "g", ".", "b">>

\* The files an archive may hold, for the detection followed by the push.
PushCandidates ==
    { [dir |-> <<Dir_Android, Dir_obb, Dir_pkg>>, name |-> Name_data_obb],
      [dir |-> <<Dir_Android, Dir_obb, Dir_pkg2>>, name |-> Name_main_OBB],
      [dir |-> <<Dir_Android, Dir_OBB, Dir_pkg>>, name |-> Name_data_obb],
      [dir |-> <<>>, name |-> Name_base_apk] }

InitPush ==
    /\ InitWindow
    /\ tree \in SUBSET PushCandidates
    /\ os_cwd \in SampleCwds
    /\ apk_files = <<>> /\ obb_pkg_dirs = <<>>
    /\ phase = "input"

\* One call of _push_obb_dirs on the map that was detected.
push_obb_dirs ==
    /\ phase = "done"
    /\ \E res \in SampleRuns :
          Handled([name |-> "_push_obb_dirs"], PushObbDirs(obb_pkg_dirs, res))
    /\ phase' = "pushed"
    /\ UNCHANGED <<tree, os_cwd, apk_files, obb_pkg_dirs, apps_list>>

NextPush == find_obb_package_dirs \/ push_obb_dirs

PushSpec == InitPush /\ [][NextPush]_vars

(***************************************************************************)
(*                      The handlers of the main window                    *)
(***************************************************************************)

Init ==
    /\ InitWindow
    /\ tree = {} /\ apk_files = <<>> /\ obb_pkg_dirs = <<>> /\ phase = "input"
    /\ os_cwd \in SampleCwds

Next ==
    \/ adb_connect_usb
    \/ adb_connect_wifi
    \/ run_custom_command
    \/ install_app
    \/ push_obb_folder
    \/ refresh_app_list
    \/ enable_app
    \/ disable_app
    \/ set_dpi
    \/ reboot_device
    \/ launch_scrcpy_mirror
    \/ launch_scrcpy_new_display

Spec == Init /\ [][Next]_vars

(***************************************************************************)
(*                                Claims                                   *)
(***************************************************************************)

RunEnded == wpc \in {"exec", "finished"}

\* C1: every execution of LogcatWorker.run that ends, by whichever path
\* (end of stream, stop observed, binary not found, other launch error),
\* has emitted exactly one "Logcat stopped." notification; a run that has
\* not ended has emitted none.
C1_ExactlyOneStopped ==
    /\ RunEnded => (stoppedCount = 1 /\ exitPath \in {"eof", "stop", "notfound", "error"})
    /\ ~RunEnded => stoppedCount = 0

\* C1 witness: a run that ended because a stop request was observed.
C1_Witness == RunEnded /\ exitPath = "stop" /\ stoppedCount = 1 /\ lineCount > 0

\* C2: once stop_logcat has been entered with a worker active, it returns
\* (reaches the clearing of the references) with exactly one terminal
\* notification emitted, the thread finished and no logcat process running.
C2_StartStopReturnsClean ==
    (mpc = "stop" /\ logcat_worker)
        ~> (mpc = "clear" /\ stoppedCount = 1 /\ wpc = "finished" /\ proc # "running")

IsLogcatLine(l) == Len(l) >= 4 /\ l[3] = "[LOGCAT]"

RECURSIVE SelectLines(_, _)
SelectLines(ls, logcat) ==
    IF ls = <<>> THEN <<>>
    ELSE IF IsLogcatLine(Head(ls)) = logcat
         THEN <<Head(ls)>> \o SelectLines(Tail(ls), logcat)
         ELSE SelectLines(Tail(ls), logcat)

\* C8 (as stated): while no write has failed, every paragraph of the two
\* log views is, verbatim, a line of debug.txt, in the same order and each
\* at a place of its own.
C8_ViewLinesVerbatimInFile ==
    ~writeFailed => /\ IsSubseq(log_output, FileLines)
                    /\ IsSubseq(logcat_output, FileLines)

\* A paragraph of the main view against its line of the file: the same, or
\* the file line is the paragraph behind a "[HH:MM:SS] > " stamp.
MatchesMain(u, f) ==
    \/ f = u
    \/ \E ts \in Timestamps : f = OutEntry(ts, u)

\* A paragraph of the logcat view against its line of the file.
MatchesLogcat(u, f) == \E ts \in Timestamps : f = LogcatEntry(ts, u)

\* C8 (amended): while no write has failed, the lines of debug.txt that are
\* not tagged [LOGCAT] correspond one to one, in order, to the paragraphs of
\* the main view, each line being its paragraph or its paragraph behind a
\* "[HH:MM:SS] > " stamp; and the paragraphs of the logcat view correspond
\* one to one, in order, to the last [LOGCAT] lines, each line being its
\* paragraph behind "[HH:MM:SS] [LOGCAT] ".
C8_ViewLinesStampedInFile ==
    ~writeFailed =>
        LET M == SelectLines(FileLines, FALSE)
            L == SelectLines(FileLines, TRUE)
            k == Len(L) - Len(logcat_output)
        IN  /\ Len(M) = Len(log_output)
            /\ \A i \in 1..Len(M) : MatchesMain(log_output[i], M[i])
            /\ k >= 0
            /\ \A i \in 1..Len(logcat_output) :
                   MatchesLogcat(logcat_output[i], L[k + i])

\* C8 witness: a multi-line output and a logcat line were logged, the
\* writes succeeded, and a continuation paragraph differs from its line.
C8_Witness ==
    /\ ~writeFailed
    /\ Len(logcat_output) = 1
    /\ Len(log_output) >= 2
    /\ \E i \in 1..Len(log_output) :
           /\ i <= Len(SelectLines(FileLines, FALSE))
           /\ SelectLines(FileLines, FALSE)[i] # log_output[i]

HasFileNamed(t, n) == \E f \in t : f.name = n

\* C6: whenever the extracted files include base.apk and split1.apk, the
\* list returned by _collect_apk_files starts with base.apk.
C6_BaseApkFirst ==
    (phase = "done" /\ HasFileNamed(tree, Name_base_apk)
                    /\ HasFileNamed(tree, Name_split1_apk))
        => (apk_files # <<>> /\ apk_files[1].name = Name_base_apk)

PkgDirInTree == <<Dir_Android, Dir_obb, Dir_pkg>>

\* C7: when the extraction root holds Android/obb/com.example.app/data.obb,
\* the map returned by _find_obb_package_dirs has the key com.example.app,
\* and its value is a path of that directory.
C7_ObbPackageDetected ==
    (phase = "done" /\ [dir |-> PkgDirInTree, name |-> Name_data_obb] \in tree)
        => \E i \in 1..Len(obb_pkg_dirs) :
               /\ obb_pkg_dirs[i].pkg = Dir_pkg
               /\ Resolve(os_cwd, obb_pkg_dirs[i].dir) = PathOf(PkgDirInTree)


\* The events of kind k among evs.
RECURSIVE EventsOf(_, _)
EventsOf(evs, k) ==
    IF evs = <<>> THEN <<>>
    ELSE IF Head(evs).k = k THEN <<Head(evs)>> \o EventsOf(Tail(evs), k)
    ELSE EventsOf(Tail(evs), k)

\* No external program was started or attempted.
NoInvocation(evs) ==
    \A i \in 1..Len(evs) : evs[i].k \notin {"run", "launch_failed", "popen"}

\* The last handler was install_app on a path ending in .apkm or .xapk.
SplitInstall == op.name = "install_app" /\ IsSplitExt(op.text)

IsGenericLog(e) == e.k = "log" /\ e.b # <<>> /\ Head(e.b) = "Error installing split package: "
IsInvalidArchiveLog(e) ==
    e.k = "log" /\ e.b = <<"Failed to read ">> \o Strip(op.text) \o <<": invalid archive.">>

\* C3 (as the spec states it): when install_app returns from a .apkm/.xapk
\* path, every temporary directory the operation made has been removed
\* again, on every exit path.
C3_NoResidualTempDir == SplitInstall => TempBalance(trace) = 0

\* The asset detection of the last install_app ran and met an exception.
DetectionRaised ==
    /\ SplitInstall /\ op.arch = "zip"
    /\ \A i \in 1..Len(trace) :
          trace[i].k \notin {"launch_failed", "decode_failed"}
          \/ trace[i].a # <<"install-multiple">>
    /\ \E d \in DirsOf(tree) : ObbVisitRaises(tree, os_cwd, d)

\* An exception reached the except clauses of install_app (lines 541-546).
ReachedGenericHandler ==
    /\ SplitInstall
    /\ \/ op.arch \in {"mkdtemp_fails", "missing", "partial"}
       \/ \E i \in 1..Len(trace) :
             /\ trace[i].k \in {"launch_failed", "decode_failed"}
             /\ trace[i].a = <<"install-multiple">>

C4_InvalidArchiveCase ==
    (SplitInstall /\ op.arch = "notzip") =>
        /\ Len(EventsOf(trace, "modal")) = 1
        /\ Len(EventsOf(trace, "log")) = 1
        /\ IsInvalidArchiveLog(EventsOf(trace, "log")[1])
        /\ NoInvocation(trace)
        /\ EventsOf(trace, "raise") = <<>>

C4_GenericCase ==
    ReachedGenericHandler =>
        /\ Len(EventsOf(trace, "modal")) = 1
        /\ Len(EventsOf(trace, "log")) = 1
        /\ IsGenericLog(EventsOf(trace, "log")[1])
        /\ EventsOf(trace, "raise") = <<>>

UnsupportedInstall ==
    /\ op.name = "install_app"
    /\ Strip(op.text) # <<>>
    /\ Lower(SplitExt(Strip(op.text))) \notin {Ext_apk, Ext_apks, Ext_apkm, Ext_xapk}

\* C5: install_app on a non-empty path whose lower-cased extension is none
\* of .apk, .apks, .apkm, .xapk starts no external program, makes no
\* temporary directory and logs exactly one "Unsupported file type" message.
C5_UnsupportedOneLog ==
    UnsupportedInstall =>
        /\ NoInvocation(trace)
        /\ EventsOf(trace, "mkdtemp") = <<>>
        /\ Len(EventsOf(trace, "log")) = 1
        /\ Head(EventsOf(trace, "log")[1].b) = "Unsupported file type: "
        /\ EventsOf(trace, "log")[1].a = <<>>

C5_Witness ==
    /\ UnsupportedInstall
    /\ SplitExt(Strip(op.text)) = <<>>
    /\ Len(EventsOf(trace, "log")) = 1

\* C9: a launch that fails inside run_adb_command is caught there: one modal,
\* one log entry naming the command, then the return of None to the caller,
\* whoever the caller and whatever return_output.
C9_LaunchFailureCaught ==
    \A i \in 1..Len(trace) :
        (trace[i].k = "launch_failed" /\ trace[i].a = <<"run_adb_command">>) =>
            /\ i + 3 <= Len(trace)
            /\ trace[i + 1].k = "modal"
            /\ trace[i + 2] = Ev("log", <<"Error running command: ">> \o Join(trace[i].b),
                                 trace[i + 1].b)
            /\ trace[i + 3] = Ev("return", <<"run_adb_command">>, None)

\* A caller that asked for the output (refresh_app_list) met the failure and
\* went on to its second call.
C9_Witness ==
    /\ op.name = "refresh_app_list"
    /\ trace[1].k = "launch_failed"
    /\ Len(trace) > 4
    /\ apps_list[1].text = Msg_could_not

\* C10 (as the spec states it): no handler lets an exception escape.
C10_NoExceptionEscapes == EventsOf(trace, "raise") = <<>>

\* The worker thread of the current run is alive: started and not finished.
ThreadAlive == wpc \notin {"none", "finished"}

\* The buttons mirror the thread reference, a live thread or a running
\* process is the one MainWindow refers to.
OneWorkerState ==
    /\ start_btn = ~logcat_thread
    /\ stop_btn = logcat_thread
    /\ logcat_worker = logcat_thread
    /\ ThreadAlive => logcat_thread
    /\ proc = "running" => ThreadAlive

\* start_logcat makes a thread, a worker and (later) a process only when
\* none of the previous run is left.
StartOnlyWhenNoneActive ==
    start_logcat => (~logcat_thread /\ ~logcat_worker /\ ~ThreadAlive /\ proc # "running")

\* C11: under any sequence of Start, Stop and close, at most one thread, one
\* worker and one logcat process exist: Start is enabled exactly when no
\* thread exists and Stop exactly when one does, and start_logcat runs only
\* while nothing of an earlier run is alive.
C11_AtMostOneWorker == [](OneWorkerState) /\ [][StartOnlyWhenNoneActive]_vars

C11_Witness ==
    /\ logcat_thread /\ logcat_worker /\ proc = "running"
    /\ ~start_btn /\ stop_btn /\ mpc = "idle" /\ ~closed

\* C12 (as the spec states it): stop_logcat, entered from the Stop button or
\* from closeEvent, eventually returns with the thread and worker references
\* cleared.
C12_StopLogcatReturns ==
    (mpc = "stop") ~> (mpc = "idle" /\ ~logcat_thread /\ ~logcat_worker)

\* Every kill() in the signals sent so far comes after a terminate().
KillAfterTerminate ==
    \A i \in 1..Len(sigs) :
        sigs[i] = "kill" => \E j \in 1..(i - 1) : sigs[j] = "term"

\* Once the terminal notification is out the process is not running.
StoppedMeansEnded == stoppedCount > 0 => proc # "running"

\* stop() has been called on the current worker.
StopRequested == stopEarly # "none"

\* C13 (as the spec states it): after a stop request the process is asked to
\* terminate before any kill, a process that does not exit is eventually
\* killed, and the process is not running once the terminal notification
\* has been emitted.
C13_GracefulThenKill ==
    /\ [](KillAfterTerminate /\ StoppedMeansEnded)
    /\ (StopRequested ~> (proc # "running" /\ stoppedCount > 0))

\* a and b are the same text but for the case of their letters.
SameIgnoringCase(a, b) ==
    Len(a) = Len(b) /\ \A i \in 1..Len(a) : LowerChar(a[i]) = LowerChar(b[i])

\* The extension of the trimmed path of the last install_app is e, in any case.
InstallExtIs(e) == SameIgnoringCase(SplitExt(Strip(op.text)), e)

\* The external programs a handler started or tried to start.
RECURSIVE Invocations(_)
Invocations(evs) ==
    IF evs = <<>> THEN <<>>
    ELSE IF Head(evs).k \in {"run", "launch_failed", "popen"}
         THEN <<Head(evs)>> \o Invocations(Tail(evs))
         ELSE Invocations(Tail(evs))

\* The strategies of install_app that left a mark in evs.
StrategiesIn(evs) ==
    {s \in {"apk", "apks", "split", "unsupported"} :
        \E i \in 1..Len(evs) :
            \/ /\ s = "apk"
               /\ evs[i].k \in {"run", "launch_failed"}
               /\ evs[i].a = <<"run_adb_command">>
               /\ Len(evs[i].b) = 3 /\ evs[i].b[2] = <<"install">>
            \/ /\ s = "apks"
               /\ \/ evs[i].a = <<"bundletool">>
                  \/ evs[i] = Ev("modal", <<"Error">>, <<"bundletool.jar not found in:">>)
            \/ /\ s = "split"
               /\ \/ evs[i].k \in {"mkdtemp", "extract", "rmtree"}
                  \/ evs[i].a = <<"install-multiple">>
                  \/ IsGenericLog(evs[i])
            \/ /\ s = "unsupported"
               /\ evs[i].k = "log" /\ evs[i].b # <<>>
               /\ Head(evs[i].b) = "Unsupported file type: "}

\* C14: install_app picks exactly one strategy, from the extension of the
\* trimmed path whatever its case: .apk one adb install of the path, .apks
\* one bundletool install-apks (none without bundletool.jar), .apkm/.xapk
\* the split-package strategy, anything else the unsupported no-op.
C14_OneStrategyByExtension ==
    (op.name = "install_app" /\ Strip(op.text) # <<>>) =>
        LET path == Strip(op.text)
            inv == Invocations(trace)
        IN  IF InstallExtIs(Ext_apk)
            THEN /\ StrategiesIn(trace) = {"apk"}
                 /\ Len(inv) = 1
                 /\ inv[1].b = <<AdbPath, <<"install">>, path>>
            ELSE IF InstallExtIs(Ext_apks)
            THEN /\ StrategiesIn(trace) = {"apks"}
                 /\ IF op.bt
                    THEN /\ Len(inv) = 1
                         /\ inv[1].b = <<<<"java">>, <<"-jar">>, BundletoolPath,
                                         <<"install-apks">>, <<"--apks=">> \o path,
                                         <<"--adb=">> \o AdbPath>>
                    ELSE inv = <<>>
            ELSE IF InstallExtIs(Ext_apkm) \/ InstallExtIs(Ext_xapk)
            THEN StrategiesIn(trace) = {"split"}
            ELSE /\ StrategiesIn(trace) = {"unsupported"}
                 /\ inv = <<>>

C14_Witness ==
    /\ op.name = "install_app"
    /\ InstallExtIs(Ext_apk) /\ SplitExt(Strip(op.text)) # Ext_apk
    /\ StrategiesIn(trace) = {"apk"}

\* The calls of subprocess.run made by run_adb_command whose program ran.
AdbRunsIn(evs) ==
    {i \in 1..Len(evs) : evs[i].k = "run" /\ evs[i].a = <<"run_adb_command">>}

\* The call of run_adb_command at position i asked for the output: the two
\* calls of refresh_app_list do (lines 576-577), and no other.
AskedForOutput(evs, i) == Len(evs[i].b) >= 5 /\ evs[i].b[4] = <<"list">>

\* The outcomes of subprocess.run with a program that ran and was decoded.
CompletedRuns ==
    {r \in SampleRuns \cup SamplePmRuns \cup SamplePmDisabledRuns : r.launch = "ok"}

\* C15 (as the spec states it): every run_adb_command whose program launches
\* logs exactly one entry, made of the space-joined command line and the
\* combined standard output and standard error, and returns the captured
\* standard output if return_output is true and None otherwise.
C15_LaunchedRunLoggedAndReturned ==
    \A i \in AdbRunsIn(trace) :
        /\ i + 2 <= Len(trace)
        /\ trace[i + 1].k = "log"
        /\ trace[i + 1].a = Join(trace[i].b)
        /\ trace[i + 2].k = "return"
        /\ \E r \in CompletedRuns :
              /\ trace[i + 1].b = Strip(r.stdout) \o <<"\n">> \o Strip(r.stderr)
              /\ trace[i + 2].b = IF AskedForOutput(trace, i) THEN r.stdout ELSE None

\* The lower-cased name of f contains "base".
NamesBase(f) == Contains(Lower(f.name), Name_base)

\* C16: the list returned by _collect_apk_files holds exactly the files under
\* the root whose lower-cased name ends in .apk, each once; the files whose
\* lower-cased name contains "base" come before all others, and each of the
\* two groups is in ascending order of lower-cased name.
C16_ApkListSortedBaseFirst ==
    phase = "done" =>
        /\ {apk_files[i] : i \in 1..Len(apk_files)}
               = {f \in tree : EndsWith(Lower(f.name), Ext_apk)}
        /\ \A i, j \in 1..Len(apk_files) :
              i < j =>
                 /\ apk_files[i] # apk_files[j]
                 /\ NamesBase(apk_files[j]) => NamesBase(apk_files[i])
                 /\ (NamesBase(apk_files[i]) = NamesBase(apk_files[j]))
                        => ~StrLess(Lower(apk_files[j].name), Lower(apk_files[i].name))

C16_Witness ==
    /\ phase = "done"
    /\ Len(apk_files) >= 4
    /\ \E i, j \in 1..Len(apk_files) :
          /\ i < j /\ apk_files[i].dir # apk_files[j].dir
          /\ Lower(apk_files[i].name) = Lower(apk_files[j].name)
    /\ \E f \in tree : ~EndsWith(Lower(f.name), Ext_apk)

\* The worker is Running: its flag is set and it reads the stream.
WorkerRunning == is_running /\ wpc \in {"read", "emit_line"}

\* C17 (as the spec states it): a worker on which a stop request has been
\* made is never Running again.
C17_NeverRunningAfterStop == StopRequested => ~WorkerRunning

\* The running flag was written, or the process handle was used to signal
\* the process, in this step.
WorkerDataTouched == is_running' # is_running \/ sigs' # sigs

\* C18 (as the spec states it): the running flag and the process handle are
\* touched by the worker context only (start_logcat constructs the worker
\* before it is moved to the thread); the foreground context never writes
\* the flag and never signals the process.
C18_ForegroundLeavesWorkerData ==
    [][WorkerDataTouched => (WorkerStep \/ start_logcat)]_vars

\* The positions in inv of the invocations with argument vector argv.
Issued(inv, argv) == {i \in 1..Len(inv) : inv[i].b = argv}

\* C19: for every package of the detected map _push_obb_dirs issues exactly
\* one mkdir -p of /sdcard/Android/obb/<package> and exactly one push of the
\* package's local directory to that path, the mkdir before the push, and
\* nothing else; with an empty map it issues nothing.
C19_MkdirThenPushPerPackage ==
    phase = "pushed" =>
        LET inv == Invocations(trace)
        IN  /\ Len(inv) = 2 * Len(obb_pkg_dirs)
            /\ obb_pkg_dirs = <<>> => trace = <<>>
            /\ \A k \in 1..Len(obb_pkg_dirs) :
                  LET remote == <<"/sdcard/Android/obb/">> \o obb_pkg_dirs[k].pkg
                      made == Issued(inv, <<AdbPath, <<"shell">>, <<"mkdir">>, <<"-p">>, remote>>)
                      pushed == Issued(inv, <<AdbPath, <<"push">>, obb_pkg_dirs[k].dir, remote>>)
                  IN  /\ Cardinality(made) = 1
                      /\ Cardinality(pushed) = 1
                      /\ \A i \in made, j \in pushed : i < j

C19_Witness ==
    /\ phase = "pushed"
    /\ Len(obb_pkg_dirs) = 2
    /\ Len(Invocations(trace)) = 4
    /\ \E i \in 1..Len(trace) : trace[i].k = "launch_failed"

\* What visiting directory d alone records: no item, or the one item of the
\* package directory d resolves to.
RecordedBy(d) == ObbVisit(tree, os_cwd, <<>>, d)

\* The positions of the walk at which a directory resolving to the package
\* identifier pkg was visited.
VisitsOf(pkg) ==
    {k \in 1..Len(trace) :
        /\ trace[k].k = "walk"
        /\ RecordedBy(trace[k].a) # <<>>
        /\ RecordedBy(trace[k].a)[1].pkg = pkg}

\* C20: the map returned by _find_obb_package_dirs never holds two entries
\* for one package identifier, and when several directories resolve to the
\* same identifier it holds the directory of the one walked last.
C20_LastWalkedWins ==
    (phase = "done" /\ op.name = "none") =>
        /\ \A i, j \in 1..Len(obb_pkg_dirs) :
              obb_pkg_dirs[i].pkg = obb_pkg_dirs[j].pkg => i = j
        /\ \A i \in 1..Len(obb_pkg_dirs) :
              LET visits == VisitsOf(obb_pkg_dirs[i].pkg)
                  last == CHOOSE k \in visits : \A l \in visits : l <= k
              IN  /\ visits # {}
                  /\ obb_pkg_dirs[i].dir = RecordedBy(trace[last].a)[1].dir
        /\ \A k \in 1..Len(trace) :
              RecordedBy(trace[k].a) # <<>> =>
                  \E i \in 1..Len(obb_pkg_dirs) :
                      obb_pkg_dirs[i].pkg = RecordedBy(trace[k].a)[1].pkg

\* Two directories with different package directories gave one identifier,
\* and the one walked first is not the one in the map.
C20_Witness ==
    /\ phase = "done" /\ op.name = "none"
    /\ Len(obb_pkg_dirs) = 1
    /\ \E k, l \in VisitsOf(obb_pkg_dirs[1].pkg) :
          /\ k < l
          /\ RecordedBy(trace[k].a)[1].dir # RecordedBy(trace[l].a)[1].dir
          /\ obb_pkg_dirs[1].dir = RecordedBy(trace[l].a)[1].dir

\* The scrcpy command line of the last handler: the argument vector handed to
\* subprocess.Popen, <<>> if none was.
ScrcpyCmd ==
    LET launches == {i \in 1..Len(trace) :
                        trace[i].k \in {"popen", "launch_failed"} /\ trace[i].a = <<"scrcpy">>}
    IN  IF launches = {} THEN <<>> ELSE trace[CHOOSE i \in launches : TRUE].b

\* The resolution text as the handlers take it: trimmed, in lower case.
ResolutionOf(text) == Lower(Strip(text))

\* r has the form <digits>x<digits>, split at position k.
ResFormAt(r, k) ==
    /\ k \in 1..Len(r) /\ r[k] = "x"
    /\ IsDigitText(SubSeq(r, 1, k - 1))
    /\ IsDigitText(SubSeq(r, k + 1, Len(r)))

\* m is the larger of the two numbers of r, split at k.
LargerOf(r, k, m) ==
    LET a == TextToInt(SubSeq(r, 1, k - 1))
        b == TextToInt(SubSeq(r, k + 1, Len(r)))
    IN  /\ m \in {IntToText(a), IntToText(b)}
        /\ TextToInt(m) >= a /\ TextToInt(m) >= b

\* The --max-fps arguments end the command line exactly when fps > 0.
FpsTail(cmd, fps, before) ==
    IF fps > 0
    THEN /\ Len(cmd) = before + 2
         /\ cmd[before + 1] = <<"--max-fps">>
         /\ cmd[before + 2] = IntToText(fps)
    ELSE Len(cmd) = before

\* The command line of launch_scrcpy_mirror: scrcpy, then -m <larger> exactly
\* when the resolution is <digits>x<digits>, then --max-fps <n> exactly when
\* fps > 0.
MirrorCmdForm ==
    (op.name = "launch_scrcpy_mirror" /\ ScrcpyCmd # <<>>) =>
        LET r == ResolutionOf(op.text)
            cmd == ScrcpyCmd
        IN  /\ cmd[1] = ScrcpyPath
            /\ IF \E k \in 1..Len(r) : ResFormAt(r, k)
               THEN /\ Len(cmd) >= 3
                    /\ cmd[2] = <<"-m">>
                    /\ \E k \in 1..Len(r) : ResFormAt(r, k) /\ LargerOf(r, k, cmd[3])
                    /\ FpsTail(cmd, op.fps, 3)
               ELSE FpsTail(cmd, op.fps, 1)

\* The command line of launch_scrcpy_new_display: scrcpy, then --new-display
\* alone or with = and a value, then --max-fps <n> exactly when fps > 0.
NewDisplayCmdForm ==
    (op.name = "launch_scrcpy_new_display" /\ ScrcpyCmd # <<>>) =>
        LET r == ResolutionOf(op.text)
            cmd == ScrcpyCmd
            suffix == IF op.dpi > 0 THEN <<"/">> \o IntToText(op.dpi) ELSE <<>>
        IN  /\ cmd[1] = ScrcpyPath
            /\ Len(cmd) >= 2
            /\ cmd[2] = IF r = <<>> /\ op.dpi = 0 THEN <<"--new-display">>
                        ELSE <<"--new-display=">> \o r \o suffix
            /\ FpsTail(cmd, op.fps, 2)

\* A /<dpi> suffix is there only behind a resolution.
DpiSuffixOnlyAfterResolution ==
    (op.name = "launch_scrcpy_new_display" /\ ScrcpyCmd # <<>>) =>
        (Contains(ScrcpyCmd[2], <<"/">>) => ResolutionOf(op.text) # <<>>)

\* C21 (as the spec states it): the scrcpy command lines use only the forms
\* -m <max-dimension>, --max-fps <n>, --new-display[=<res>[/<dpi>]], and a
\* /<dpi> suffix appears only after a resolution.
C21_ScrcpyArgumentForms ==
    MirrorCmdForm /\ NewDisplayCmdForm /\ DpiSuffixOnlyAfterResolution

\* C21 (amended): -m <larger> appears exactly for a resolution of the form
\* <digits>x<digits>, --max-fps <n> exactly when fps > 0, and --new-display
\* carries =<res>[/<dpi>] with the /<dpi> suffix exactly when dpi > 0, also
\* when the resolution is empty (--new-display=/<dpi>).
C21_ScrcpyArgumentFormsDpiAlone == MirrorCmdForm /\ NewDisplayCmdForm

C21_Witness ==
    /\ op.name = "launch_scrcpy_mirror"
    /\ Len(ScrcpyCmd) = 5
    /\ ScrcpyCmd[3] = <<"1", "2">>
    /\ Strip(op.text) # Lower(Strip(op.text))


\* a is a prefix of b.
IsPrefixOf(a, b) == Len(a) <= Len(b) /\ SubSeq(b, 1, Len(a)) = a

\* C22: within a session debug.txt is append-only: it is empty (or absent)
\* right after start-up, and every step (_log, logcat line) leaves the
\* previous content as an unchanged prefix of the new content.
C22_LogFileAppendOnly ==
    /\ debug_file = <<>>
    /\ [][IsPrefixOf(debug_file, debug_file')]_vars

\* C22 witness: a _log entry and a logcat line were both written, the
\* second behind the first.
C22_Witness ==
    /\ nOps = 2
    /\ log_output # <<>> /\ logcat_output # <<>>
    /\ Len(FileLines) >= 2
    /\ ~writeFailed


\* The handlers that end with a complete refresh_app_list.
Refreshed ==
    \/ op.name = "refresh_app_list"
    \/ op.name \in {"enable", "disable-user"} /\ op.pkg # None

\* The positions in the trace where run_adb_command returned.
ReturnsAt == {i \in 1..Len(trace) : trace[i].k = "return"}

\* What the latest pm list packages and pm list packages -d returned: the
\* last two returns of a handler that refreshed.
LatestAll ==
    LET last == CHOOSE i \in ReturnsAt : \A j \in ReturnsAt : j <= i
        before == ReturnsAt \ {last}
    IN  trace[CHOOSE i \in before : \A j \in before : j <= i].b
LatestDisabled == trace[CHOOSE i \in ReturnsAt : \A j \in ReturnsAt : j <= i].b

\* The identifier a line of pm output names.
IdentifierOf(line) == Strip(RemovePrefixWord(line))

\* How often the text x is among the entries of l.
TimesIn(x, l) == Cardinality({i \in 1..Len(l) : l[i] = x})

\* C23: after refresh_app_list the list holds exactly one entry per line of
\* the latest pm list packages output, in sorted order, each red exactly
\* when its identifier is in the latest pm list packages -d output; when no
\* package output was obtained it holds the one entry "Could not retrieve
\* apps.".
C23_ListMirrorsLatestOutput ==
    Refreshed =>
        LET texts == [i \in 1..Len(apps_list) |-> apps_list[i].text]
            lines == SplitLines(LatestAll)
            ids == [i \in 1..Len(lines) |-> IdentifierOf(lines[i])]
            dis == IF LatestDisabled = None THEN <<>> ELSE SplitLines(LatestDisabled)
            disabled == {IdentifierOf(dis[i]) : i \in 1..Len(dis)}
        IN  IF LatestAll = None \/ LatestAll = <<>>
            THEN /\ texts = <<Msg_could_not>>
                 /\ ~apps_list[1].red
            ELSE /\ Len(texts) = Len(lines)
                 /\ \A i \in 1..Len(ids) : TimesIn(ids[i], texts) = TimesIn(ids[i], ids)
                 /\ \A i \in 1..Len(texts), j \in 1..Len(texts) :
                        i < j => ~StrLess(texts[j], texts[i])
                 /\ \A i \in 1..Len(texts) :
                        apps_list[i].red <=> texts[i] \in disabled

\* C23 witness: a second refresh listed two packages, given in the other
\* order by pm, the first of them disabled.
C23_Witness ==
    /\ nOps = 2 /\ Refreshed
    /\ Len(apps_list) = 2
    /\ apps_list[1].text = <<"a">> /\ apps_list[1].red
    /\ apps_list[2].text = <<"b">> /\ ~apps_list[2].red
    /\ IdentifierOf(SplitLines(LatestAll)[1]) = <<"b">>


\* The terminal notification of this run has been emitted and run() has
\* returned: the worker is past every emit of a stream or error line.
TerminalIsLast == stoppedCount >= 1 => wpc \in {"exec", "finished"}

\* C24: within one worker run "Logcat stopped." is the last notification,
\* and once stop() has cleared the running flag at most one further stream
\* line is emitted, in every interleaving of run() with stop().
C24_AtMostOneLineAfterStop == TerminalIsLast /\ afterStop <= 1


\* Where the last handler started, or tried to start, adb install-multiple.
InstallMultipleAt ==
    {i \in 1..Len(trace) :
        trace[i].k \in {"run", "launch_failed"} /\ trace[i].a = <<"install-multiple">>}

\* Where it started, or tried to start, a mkdir or a push for the assets.
AssetCommandAt ==
    {i \in 1..Len(trace) :
        /\ trace[i].k \in {"run", "launch_failed"}
        /\ trace[i].a = <<"run_adb_command">>
        /\ Len(trace[i].b) >= 3
        /\ \/ trace[i].b[2] = <<"push">>
           \/ trace[i].b[2] = <<"shell">> /\ trace[i].b[3] = <<"mkdir">>}

\* Where it logged what the detection of line 533 found.
DetectionLogAt ==
    {i \in 1..Len(trace) :
        /\ trace[i].k = "log" /\ trace[i].a = <<>> /\ trace[i].b # <<>>
        /\ Head(trace[i].b) \in {"Detected OBB packages: ",
                                 "No OBB assets detected in this package."}}

\* An exception left the try block before line 533: the extraction failed,
\* or subprocess.run of install-multiple raised.
RaisedBeforeDetection ==
    \/ op.arch # "zip"
    \/ \E i \in 1..Len(trace) :
          /\ trace[i].k \in {"launch_failed", "decode_failed"}
          /\ trace[i].a = <<"install-multiple">>

\* C25: in the split-package strategy install-multiple is issued exactly
\* when an .apk was found, before every mkdir and push for the assets; the
\* assets are detected and pushed whatever install-multiple printed, and
\* also when no .apk was found, unless an exception was raised before.
C25_InstallThenAssets ==
    SplitInstall =>
        /\ (InstallMultipleAt # {}) <=> (op.arch = "zip" /\ apk_files # <<>>)
        /\ Cardinality(InstallMultipleAt) <= 1
        /\ \A i \in InstallMultipleAt, j \in AssetCommandAt : i < j
        /\ \A i \in InstallMultipleAt, j \in DetectionLogAt : i < j
        /\ IF RaisedBeforeDetection
           THEN DetectionLogAt = {} /\ AssetCommandAt = {}
           ELSE /\ Cardinality(DetectionLogAt) = 1
                /\ Cardinality(AssetCommandAt) = 2 * Len(obb_pkg_dirs)

\* C25 witness: install-multiple printed an error, and the assets of one
\* package were pushed after it.
C25_Witness ==
    /\ SplitInstall
    /\ \E i \in InstallMultipleAt :
          /\ trace[i].k = "run"
          /\ trace[i + 1].k = "log" /\ trace[i + 1].b = <<"\n", "e">>
    /\ Cardinality(AssetCommandAt) = 2


\* Where the last handler removed the temporary directory.
RemovedAt == {i \in 1..Len(trace) : trace[i].k = "rmtree"}

\* The external command started at position j has completed by the next
\* event: subprocess.run returned, and its output was logged or could not
\* be decoded.
CompletedAt(j) ==
    trace[j].k = "run" =>
        /\ j < Len(trace)
        /\ trace[j + 1].k \in {"log", "decode_failed"}

\* C26: in the split-package strategy the temporary directory is removed
\* only after install-multiple and every mkdir and push of the operation
\* has completed: no external command is started after the removal, or is
\* still running at it.
C26_RemovedAfterCommands ==
    SplitInstall =>
        /\ Cardinality(RemovedAt) <= 1
        /\ \A i \in RemovedAt :
              \A j \in 1..Len(trace) :
                 trace[j].k \in {"run", "launch_failed", "popen"} =>
                    /\ j < i
                    /\ CompletedAt(j)
                    /\ trace[j].k = "run" => j + 1 < i

\* C26 witness: install-multiple, a mkdir and a push ran, and the temporary
\* directory was removed as the last thing.
C26_Witness ==
    /\ SplitInstall
    /\ InstallMultipleAt # {} /\ Cardinality(AssetCommandAt) = 2
    /\ RemovedAt = {Len(trace)}
    /\ \E j \in AssetCommandAt : trace[j].b[2] = <<"push">> /\ trace[j].k = "run"


\* The last handler was one of the four that test their input field, and
\* the field was empty or blank, or push_obb_folder was given a path that
\* is not an existing directory.
RejectedInput ==
    /\ op.name \in {"adb_connect_wifi", "run_custom_command", "install_app",
                    "push_obb_folder"}
    /\ \/ Strip(op.text) = <<>>
       \/ op.name = "push_obb_folder" /\ ~op.isdir

\* C27: with an empty or blank input field (and push_obb_folder also with a
\* path that is not an existing directory) the handler starts no external
\* program, shows no modal and logs exactly one message.
C27_RejectedInputLogsOnce ==
    RejectedInput =>
        /\ NoInvocation(trace)
        /\ EventsOf(trace, "modal") = <<>>
        /\ Len(EventsOf(trace, "log")) = 1
        /\ Len(trace) = 1
        /\ trace[1].a = <<>> /\ trace[1].b # <<>>

\* C27 witness: adb_connect_wifi on a field of blanks, and nothing but one
\* message in the log.
C27_Witness ==
    /\ op.name = "adb_connect_wifi"
    /\ op.text = <<" ", " ">>
    /\ trace = <<Ev("log", <<>>, <<"IP address cannot be empty.">>)>>
    /\ log_output # <<>>


Msg_loading == <<"Loading...">>

\* The external commands of the last handler, in order.
CommandsOf == Invocations(trace)

\* C28: enable_app and disable_app issue pm enable / pm disable-user only
\* with a package identifier of the latest listing, never with a
\* placeholder entry or an empty string; they issue nothing when no entry
\* is selected, and each issued command is followed by exactly one full
\* refresh.
C28_ToggleOnlyListedPackages ==
    op.name \in {"enable", "disable-user"} =>
        IF op.pkg = None THEN trace = <<>>
        ELSE /\ op.pkg \notin {Msg_loading, Msg_could_not, <<>>}
             /\ Len(CommandsOf) = 3
             /\ CommandsOf[1].b = <<AdbPath, <<"shell">>, <<"pm">>, <<op.name>>, op.pkg>>
             /\ CommandsOf[2].b = <<AdbPath, <<"shell">>, <<"pm">>, <<"list">>,
                                    <<"packages">>>>
             /\ CommandsOf[3].b = <<AdbPath, <<"shell">>, <<"pm">>, <<"list">>,
                                    <<"packages">>, <<"-d">>>>

====
